---- MODULE Spec2Model ----
(***************************************************************************)
(* Model of the Blink Coordinator (point-agent): the tools list_agents,    *)
(* delegate_to_agent and check_agent_response of the chat handler, the     *)
(* key-value context store they share and the remote chat service they     *)
(* talk to.  Strings are sequences of one-character strings, so that       *)
(* trimming, concatenation, number formatting and JSON escaping are        *)
(* computed and not assumed.                                               *)
(***************************************************************************)
EXTENDS Integers, Sequences, FiniteSets

VARIABLES
  env,       \* process.env: BLINK_API_TOKEN and BLINK_ORG_ID
  store,     \* context.store: partial function from keys to strings
  remote,    \* the remote chat service: partial function chat id -> chat
  nextId,    \* number of the next chat id the remote service issues
  now,       \* Date.now(), in milliseconds
  calls,     \* the remote requests issued by the most recent tool call
  lastCall,  \* the most recent tool call: its arguments and its outcome
  tasks,     \* the tool calls in flight, each suspended at one of its awaits
  slack      \* the status shown on the Slack thread of the conversation

vars == <<env, store, remote, nextId, now, calls, lastCall, tasks, slack>>

----------------------------------------------------------------------------
(* Bounds of the model *)

MaxAgents == 2
MaxOrgs == 3
MaxChats == 2
MaxMsgs == 2
MaxCount == 2
MaxQueryLen == 2

----------------------------------------------------------------------------
(* Optional values: undefined / null versus a present value *)

Unset == [set |-> FALSE, value |-> <<>>]
Val(v) == [set |-> TRUE, value |-> v]

\* JavaScript truthiness of an optional string: undefined, null and "" are falsy
Truthy(o) == o.set /\ o.value # <<>>

----------------------------------------------------------------------------
(* Strings *)

Digit == <<"0", "1", "2", "3", "4", "5", "6", "7", "8", "9">>

\* the value parseInt and arithmetic produce for a string that is no number
NaN == -1

RECURSIVE toString(_)
\* Number.prototype.toString() of a non-negative integer (or NaN)
toString(n) ==
  IF n = NaN THEN <<"N", "a", "N">>
  ELSE IF n < 10 THEN <<Digit[n + 1]>>
  ELSE toString(n \div 10) \o <<Digit[(n % 10) + 1]>>

DigitValue(c) == CHOOSE d \in 0..9 : Digit[d + 1] = c
IsDigit(c) == \E d \in 0..9 : Digit[d + 1] = c

RECURSIVE ParseDigits(_, _, _)
ParseDigits(s, i, acc) ==
  IF i > Len(s) \/ ~IsDigit(s[i]) THEN acc
  ELSE ParseDigits(s, i + 1, acc * 10 + DigitValue(s[i]))

\* parseInt(s, 10) on a string without sign or leading blanks: the number its
\* leading digits spell, NaN when it starts with no digit
ParseInt(s) ==
  IF Len(s) = 0 \/ ~IsDigit(s[1]) THEN NaN ELSE ParseDigits(s, 1, 0)

WhiteSpace == {" ", "\n", "\t"}

RECURSIVE TrimStart(_)
TrimStart(s) ==
  IF Len(s) > 0 /\ s[1] \in WhiteSpace THEN TrimStart(Tail(s)) ELSE s

RECURSIVE TrimEnd(_)
TrimEnd(s) ==
  IF Len(s) > 0 /\ s[Len(s)] \in WhiteSpace
  THEN TrimEnd(SubSeq(s, 1, Len(s) - 1)) ELSE s

\* String.prototype.trim()
Trim(s) == TrimEnd(TrimStart(s))

\* JSON.stringify of one character of a string
JsonEscapeChar(c) ==
  IF c = "\"" THEN <<"\\", "\"">>
  ELSE IF c = "\\" THEN <<"\\", "\\">>
  ELSE IF c = "\n" THEN <<"\\", "n">>
  ELSE IF c = "\t" THEN <<"\\", "t">>
  ELSE <<c>>

RECURSIVE JsonEscape(_)
JsonEscape(s) ==
  IF s = <<>> THEN <<>> ELSE JsonEscapeChar(Head(s)) \o JsonEscape(Tail(s))

\* JSON.stringify of a string value
JsonStringify(s) == <<"\"">> \o JsonEscape(s) \o <<"\"">>

RECURSIVE JsonUnescape(_)
JsonUnescape(s) ==
  IF s = <<>> THEN <<>>
  ELSE IF Head(s) = "\\" /\ Len(s) >= 2
  THEN (IF s[2] = "n" THEN <<"\n">>
        ELSE IF s[2] = "t" THEN <<"\t">>
        ELSE <<s[2]>>) \o JsonUnescape(SubSeq(s, 3, Len(s)))
  ELSE <<Head(s)>> \o JsonUnescape(Tail(s))

\* the remote service's JSON.parse of a string value
JsonParse(j) == JsonUnescape(SubSeq(j, 2, Len(j) - 1))

----------------------------------------------------------------------------
(* Identifiers and store keys *)

AgentId(i) == <<"a">> \o toString(i)
OrgId(i) == <<"o">> \o toString(i)
ChatId(i) == <<"c">> \o toString(i)

AgentIds == {AgentId(i) : i \in 1..MaxAgents}
OrgIds == {OrgId(i) : i \in 1..MaxOrgs}
ChatIds == {ChatId(i) : i \in 1..MaxChats}

\* one record for all agents
AgentChatKey_Shared(agent_id) == <<"agent_chat:", <<>>>>

\* `agent_chat:${agent_id}`
AgentChatKey(agent_id) == <<"agent_chat:", agent_id>>
\* `check_count:${chat_id}`
\* the counter is kept under the prefix of the agent records
CheckCountKey_AgentPrefix(chat_id) == <<"agent_chat:", chat_id>>
CheckCountKey(chat_id) == <<"check_count:", chat_id>>

\* context.store.get / set / delete
StoreGet(s, k) == IF k \in DOMAIN s THEN Val(s[k]) ELSE Unset
\* a key that has a value keeps it
StoreSet_KeepFirst(s, k, v) ==
  [x \in DOMAIN s \cup {k} |-> IF x \in DOMAIN s THEN s[x] ELSE v]
StoreSet(s, k, v) == [x \in DOMAIN s \cup {k} |-> IF x = k THEN v ELSE s[x]]
\* the key is not deleted
StoreDelete_Nothing(s, k) == s
StoreDelete(s, k) == [x \in DOMAIN s \ {k} |-> s[x]]

EmptyStore == [x \in {} |-> <<>>]

----------------------------------------------------------------------------
(* The remote chat service *)

\* "pending" stands for every status that is neither streaming nor idle
Statuses == {"pending", "streaming", "idle"}

\* every response counts as OK
Ok_Always(status) == TRUE

Ok(status) == status >= 200 /\ status <= 299

TextPart(t) == [type |-> "text", text |-> Val(t)]
UserMessage(t) == [role |-> "user", parts |-> Val(<<TextPart(t)>>)]

\* created_at as the service reports it: an ISO date string of the instant ms
IsoDate(ms) == [fmt |-> "iso", ms |-> ms]
\* the same instant sent as a number: Unix seconds, Unix milliseconds
UnixSeconds(ms) == [fmt |-> "seconds", ms |-> ms]
UnixMillis(ms) == [fmt |-> "millis", ms |-> ms]

\* POST /api/messages {chat_id, behavior: "enqueue", messages} accepted
RemoteAppend(r, chat_id, body, st) ==
  [r EXCEPT ![chat_id].messages = Append(@, UserMessage(JsonParse(body.text))),
            ![chat_id].status = st]

\* POST /api/chats {organization_id, agent_id, stream, messages} accepted
RemoteCreate(r, chat_id, body, st, t) ==
  [x \in DOMAIN r \cup {chat_id} |->
     IF x = chat_id
     THEN [status |-> st, created_at |-> IsoDate(t), error |-> Unset,
           messages |-> <<UserMessage(JsonParse(body.text))>>]
     ELSE r[x]]

NoChats == [x \in {} |-> <<>>]

----------------------------------------------------------------------------
(* Requests and results *)

BLINK_API_TOKEN_missing_list ==
  "BLINK_API_TOKEN environment variable not set. Please configure your Blink API token."
BLINK_API_TOKEN_missing ==
  "BLINK_API_TOKEN environment variable not set. Cannot authenticate with agent."

\* the credential is never tested
MissingToken_Never(apiToken) == FALSE

\* if (!apiToken)
MissingToken(apiToken) == ~Truthy(apiToken)

\* a tool call that returned / that threw
Return(op, args, value) ==
  [op |-> op, args |-> args, outcome |-> "return", value |-> value]
Throw(op, args, message, status) ==
  [op |-> op, args |-> args, outcome |-> "throw",
   value |-> [message |-> message, status |-> status]]

\* the body of a response that is not OK: await response.text()
ErrorText(status) ==
  IF status = 404 THEN <<"N", "o", "t", " ", "F", "o", "u", "n", "d">>
  ELSE <<"o", "o", "p", "s">>

\* a tool call that threw `${message}: ${status} ${statusText} - ${errorText}`
ThrowResponse(op, args, message, status) ==
  [op |-> op, args |-> args, outcome |-> "throw",
   value |-> [message |-> message, status |-> status,
              errorText |-> ErrorText(status)]]

NoCall == [op |-> "none", args |-> <<>>, outcome |-> "none", value |-> <<>>]

\* no tool call is in flight
NoTasks == <<>>

\* the Slack thread shows no status
NoStatus == <<>>

\* the query is trimmed before it is sent
AppendBody_Trimmed(existingChatId, query) ==
  [chat_id |-> existingChatId, behavior |-> "enqueue", role |-> "user",
   type |-> "text", text |-> JsonStringify(Trim(query))]

\* the JSON body of POST /api/messages
AppendBody(existingChatId, query) ==
  [chat_id |-> existingChatId, behavior |-> "enqueue", role |-> "user",
   type |-> "text", text |-> JsonStringify(query)]

\* the chat is created with a streamed response
CreateBody_Streaming(organization_id, agent_id, query) ==
  [organization_id |-> organization_id, agent_id |-> agent_id,
   stream |-> TRUE, role |-> "user", type |-> "text",
   text |-> JsonStringify(query)]

\* the JSON body of POST /api/chats
CreateBody(organization_id, agent_id, query) ==
  [organization_id |-> organization_id, agent_id |-> agent_id,
   stream |-> FALSE, role |-> "user", type |-> "text",
   text |-> JsonStringify(query)]

Request(op, target, body, status) ==
  [op |-> op, target |-> target, body |-> body, status |-> status]

----------------------------------------------------------------------------
(* delegate_to_agent *)

\* the existing chat is reused whatever force_new_chat says
ReuseExisting_IgnoreForce(existingChatId, force_new_chat) ==
  Truthy(existingChatId)

\* if (existingChatId && !force_new_chat)
ReuseExisting(existingChatId, force_new_chat) ==
  Truthy(existingChatId) /\ ~force_new_chat

\* the continued handle is marked as a new conversation
ContinuedResult_MarkedNew(existingChatId, agent_id, query) ==
  [status |-> "delegated",
   message |-> "Successfully sent message to existing conversation with agent. The agent is processing your request.",
   chat_id |-> existingChatId, agent_id |-> agent_id, query |-> query,
   continued_conversation |-> FALSE]

\* the result returned after a message was appended to the existing chat
ContinuedResult(existingChatId, agent_id, query) ==
  [status |-> "delegated",
   message |-> "Successfully sent message to existing conversation with agent. The agent is processing your request.",
   chat_id |-> existingChatId, agent_id |-> agent_id, query |-> query,
   continued_conversation |-> TRUE]

\* the new handle is marked as a continued conversation
NewResult_MarkedContinued(newChatId, agent_id, query) ==
  [status |-> "delegated",
   message |-> "Successfully delegated query to agent. The agent is processing your request.",
   chat_id |-> newChatId, agent_id |-> agent_id, query |-> query,
   continued_conversation |-> TRUE]

\* the result returned after a new chat was created
NewResult(newChatId, agent_id, query) ==
  [status |-> "delegated",
   message |-> "Successfully delegated query to agent. The agent is processing your request.",
   chat_id |-> newChatId, agent_id |-> agent_id, query |-> query,
   continued_conversation |-> FALSE]

\* every failed append is taken for a missing chat
NotFound_AnyFailure(status) == TRUE

\* if (response.status === 404)
NotFound(status) == status = 404

\* the stale record is kept on 404
StoreAfterAppendFailure_KeepRecord(s, storeKey, status) == s

\* the store after a failed append: the record is deleted on 404 only
StoreAfterAppendFailure(s, storeKey, status) ==
  IF NotFound(status) THEN StoreDelete(s, storeKey) ELSE s

\* the counter of the new chat is not initialised
StoreAfterCreate_NoCount(s, storeKey, newChatId) ==
  StoreSet(s, storeKey, newChatId)

\* the record of an agent that already has one is not overwritten
StoreAfterCreate_KeepFirst(s, storeKey, newChatId) ==
  StoreSet(IF storeKey \in DOMAIN s THEN s ELSE StoreSet(s, storeKey, newChatId),
           CheckCountKey(newChatId), <<"0">>)

\* the store after a new chat was created
StoreAfterCreate(s, storeKey, newChatId) ==
  StoreSet(StoreSet(s, storeKey, newChatId), CheckCountKey(newChatId), <<"0">>)

\* the counter is not reset when the conversation is continued
StoreAfterAppend_NoReset(s, existingChatId) == s

\* the store after a message was appended to the existing chat
StoreAfterAppend(s, existingChatId) ==
  StoreSet(s, CheckCountKey(existingChatId), <<"0">>)

\* what the remote service answers to an append to chat_id
AppendStatuses(chat_id) ==
  IF chat_id \in DOMAIN remote
  THEN (IF Len(remote[chat_id].messages) < MaxMsgs THEN {200} ELSE {}) \cup {500}
  ELSE {404, 500}

\* what the remote service answers to a chat creation
CreateStatuses == (IF nextId <= MaxChats THEN {200} ELSE {}) \cup {500}

delegate_to_agent(agent_id, organization_id, query, force_new_chat, appendStatus, createStatus, st) ==
  LET op == "delegate_to_agent"
      args == [agent_id |-> agent_id, organization_id |-> organization_id,
               query |-> query, force_new_chat |-> force_new_chat]
      storeKey == AgentChatKey(agent_id)
      existingChatId == StoreGet(store, storeKey)
      reuse == ReuseExisting(existingChatId, force_new_chat)
      appendBody == AppendBody(existingChatId.value, query)
      appendCall == Request("POST /api/messages", existingChatId.value,
                            appendBody, appendStatus)
      callsA == IF reuse THEN <<appendCall>> ELSE <<>>
      store1 == IF reuse
                THEN StoreAfterAppendFailure(store, storeKey, appendStatus)
                ELSE store
      createBody == CreateBody(organization_id, agent_id, query)
      newChatId == ChatId(nextId)
      createCall == Request("POST /api/chats", newChatId, createBody,
                            createStatus)
  IN
  IF MissingToken(env.BLINK_API_TOKEN)
  THEN /\ appendStatus = 200 /\ createStatus = 200 /\ st = "pending"
       /\ lastCall' = Throw(op, args, BLINK_API_TOKEN_missing, 0)
       /\ calls' = <<>>
       /\ UNCHANGED <<slack, tasks, env, store, remote, nextId, now>>
  ELSE
  /\ IF reuse THEN appendStatus \in AppendStatuses(existingChatId.value)
              ELSE appendStatus = 200
  /\ IF reuse /\ Ok(appendStatus)
     THEN \* message sent to the existing chat
          /\ createStatus = 200
          /\ remote' = RemoteAppend(remote, existingChatId.value, appendBody, st)
          /\ store' = StoreAfterAppend(store, existingChatId.value)
          /\ calls' = callsA
          /\ lastCall' = Return(op, args,
                           ContinuedResult(existingChatId.value, agent_id, query))
          /\ UNCHANGED <<slack, tasks, env, nextId, now>>
     ELSE IF reuse /\ ~NotFound(appendStatus)
     THEN \* the append failed with something else than 404
          /\ createStatus = 200 /\ st = "pending"
          /\ calls' = callsA
          /\ lastCall' = Throw(op, args, "Failed to send message to agent",
                               appendStatus)
          /\ UNCHANGED <<slack, tasks, env, store, remote, nextId, now>>
     ELSE \* create a new chat with the agent
          /\ createStatus \in CreateStatuses
          /\ calls' = Append(callsA, createCall)
          /\ IF Ok(createStatus)
             THEN /\ remote' = RemoteCreate(remote, newChatId, createBody, st, now)
                  /\ nextId' = nextId + 1
                  /\ store' = StoreAfterCreate(store1, storeKey, newChatId)
                  /\ lastCall' = Return(op, args,
                                        NewResult(newChatId, agent_id, query))
                  /\ UNCHANGED <<slack, tasks, env, now>>
             ELSE /\ st = "pending"
                  /\ store' = store1
                  /\ lastCall' = Throw(op, args,
                                       "Failed to communicate with agent",
                                       createStatus)
                  /\ UNCHANGED <<slack, tasks, env, remote, nextId, now>>

----------------------------------------------------------------------------
(* check_agent_response *)

\* the counter is read back but not incremented
NextCheckCount_NoIncrement(previousCount) ==
  IF Truthy(previousCount) THEN ParseInt(previousCount.value) ELSE 1

\* the counter advances by two
NextCheckCount_PlusTwo(previousCount) ==
  IF Truthy(previousCount) THEN ParseInt(previousCount.value) + 2 ELSE 2

\* every check starts the count again
NextCheckCount_Reset(previousCount) == 1

\* (previousCount ? parseInt(previousCount, 10) : 0) + 1
NextCheckCount(previousCount) ==
  LET parsed == IF Truthy(previousCount) THEN ParseInt(previousCount.value)
                ELSE 0
  IN IF parsed = NaN THEN NaN ELSE parsed + 1

\* new Date(created_at).getTime()
DateGetTime(created_at) ==
  IF created_at.fmt = "iso" THEN created_at.ms
  ELSE IF created_at.fmt = "millis" THEN created_at.ms
  ELSE IF created_at.fmt = "seconds" THEN created_at.ms \div 1000
  ELSE NaN

\* const timeoutMs = 2 * 60 * 1000
timeoutMs == 2 * 60 * 1000

\* elapsedMs >= timeoutMs instead of elapsedMs > timeoutMs
TimedOut_AtThreshold(created_at, nowMs) ==
  LET createdAt == DateGetTime(created_at)
  IN createdAt # NaN /\ nowMs - createdAt >= timeoutMs

\* elapsedMs > timeoutMs, with elapsedMs = Date.now() - createdAt.getTime()
TimedOut(created_at, nowMs) ==
  LET createdAt == DateGetTime(created_at)
  IN createdAt # NaN /\ nowMs - createdAt > timeoutMs

ProcessingMessage ==
  "The agent is still processing your request. Please wait a moment and check again."

\* the error test placed after the streaming test
HasError_AfterStreaming(chatData) ==
  Truthy(chatData.error) /\ chatData.status # "streaming"

\* the error field is not looked at
HasError_Never(chatData) == FALSE

\* if (chatData.error)
HasError(chatData) == Truthy(chatData.error)

\* the timeout test applied to every chat that is not streaming, idle or not
StatusResult_TimeoutIdle(chatData, checkCount, nowMs) ==
  IF HasError(chatData)
  THEN Val([status |-> "error",
            message |-> <<"The agent encountered an error: ",
                          chatData.error.value>>,
            chat_status |-> chatData.status,
            check_count |-> checkCount])
  ELSE IF chatData.status = "streaming"
  THEN Val([status |-> "processing",
            message |-> ProcessingMessage,
            chat_status |-> chatData.status,
            check_count |-> checkCount])
  ELSE IF TimedOut(chatData.created_at, nowMs)
  THEN Val([status |-> "timeout",
            message |-> <<"The agent chat is stuck in '", chatData.status,
                          "' state for over 2 minutes. It may have encountered an issue. You can try asking the question again.">>,
            chat_status |-> chatData.status,
            check_count |-> checkCount])
  ELSE IF chatData.status # "idle"
  THEN Val([status |-> "processing",
            message |-> <<"The agent chat is in '", chatData.status,
                          "' state. Waiting for it to start processing...">>,
            chat_status |-> chatData.status,
            check_count |-> checkCount])
  ELSE Unset

\* the timeout test applied to every chat that is not idle, streaming or not
StatusResult_TimeoutFirst(chatData, checkCount, nowMs) ==
  IF HasError(chatData)
  THEN Val([status |-> "error",
            message |-> <<"The agent encountered an error: ",
                          chatData.error.value>>,
            chat_status |-> chatData.status,
            check_count |-> checkCount])
  ELSE IF chatData.status # "idle" /\ TimedOut(chatData.created_at, nowMs)
  THEN Val([status |-> "timeout",
            message |-> <<"The agent chat is stuck in '", chatData.status,
                          "' state for over 2 minutes. It may have encountered an issue. You can try asking the question again.">>,
            chat_status |-> chatData.status,
            check_count |-> checkCount])
  ELSE IF chatData.status = "streaming"
  THEN Val([status |-> "processing",
            message |-> ProcessingMessage,
            chat_status |-> chatData.status,
            check_count |-> checkCount])
  ELSE IF chatData.status # "idle"
  THEN Val([status |-> "processing",
            message |-> <<"The agent chat is in '", chatData.status,
                          "' state. Waiting for it to start processing...">>,
            chat_status |-> chatData.status,
            check_count |-> checkCount])
  ELSE Unset

\* the part of the handler that looks at the chat's status only: the result
\* it returns, or Unset when it goes on to fetch the messages
StatusResult(chatData, checkCount, nowMs) ==
  IF HasError(chatData)
  THEN Val([status |-> "error",
            message |-> <<"The agent encountered an error: ",
                          chatData.error.value>>,
            chat_status |-> chatData.status,
            check_count |-> checkCount])
  ELSE IF chatData.status = "streaming"
  THEN Val([status |-> "processing",
            message |-> ProcessingMessage,
            chat_status |-> chatData.status,
            check_count |-> checkCount])
  ELSE IF chatData.status # "idle"
  THEN IF TimedOut(chatData.created_at, nowMs)
       THEN Val([status |-> "timeout",
                 message |-> <<"The agent chat is stuck in '", chatData.status,
                               "' state for over 2 minutes. It may have encountered an issue. You can try asking the question again.">>,
                 chat_status |-> chatData.status,
                 check_count |-> checkCount])
       ELSE Val([status |-> "processing",
                 message |-> <<"The agent chat is in '", chatData.status,
                               "' state. Waiting for it to start processing...">>,
                 chat_status |-> chatData.status,
                 check_count |-> checkCount])
  ELSE Unset

\* the messages are not filtered by role
AssistantMessages_All(messages) == messages

\* no message passes the filter
AssistantMessages_None(messages) == <<>>

\* messages.filter((m) => m.role === "assistant")
AssistantMessages(messages) ==
  SelectSeq(messages, LAMBDA m : m.role = "assistant")

RECURSIVE PartsText(_)
\* the inner loop: part.text + "\n\n" for every text part with a text
PartsText(parts) ==
  IF parts = <<>> THEN <<>>
  ELSE LET part == Head(parts)
       IN (IF part.type = "text" /\ Truthy(part.text)
           THEN part.text.value \o <<"\n", "\n">> ELSE <<>>)
          \o PartsText(Tail(parts))

\* the text of the last assistant message only
CollectText_LastOnly(assistantMessages) ==
  LET msg == assistantMessages[Len(assistantMessages)]
  IN IF msg.parts.set THEN PartsText(msg.parts.value) ELSE <<>>

RECURSIVE CollectText(_)
\* the outer loop over the assistant messages, before the trim
CollectText(assistantMessages) ==
  IF assistantMessages = <<>> THEN <<>>
  ELSE LET msg == Head(assistantMessages)
       IN (IF msg.parts.set THEN PartsText(msg.parts.value) ELSE <<>>)
          \o CollectText(Tail(assistantMessages))

NoTextResponse ==
  <<"A", "g", "e", "n", "t", " ", "r", "e", "t", "u", "r", "n", "e", "d", " ",
    "n", "o", " ", "t", "e", "x", "t", " ", "r", "e", "s", "p", "o", "n", "s",
    "e">>

\* the counts are attached to the result before any answer has arrived
IdleResult_CountsWhileProcessing(chatData, messagesData) ==
  LET messages == IF messagesData.items.set THEN messagesData.items.value
                  ELSE <<>>
      assistantMessages == AssistantMessages(messages)
      fullResponse == Trim(CollectText(assistantMessages))
  IN IF Len(assistantMessages) = 0
     THEN [status |-> "processing",
           message |-> ProcessingMessage,
           message_count |-> Len(messages),
           assistant_message_count |-> Len(assistantMessages),
           chat_status |-> chatData.status]
     ELSE [status |-> "completed",
           response |-> IF fullResponse # <<>> THEN fullResponse
                        ELSE NoTextResponse,
           message_count |-> Len(messages),
           assistant_message_count |-> Len(assistantMessages),
           chat_status |-> chatData.status]

\* the part of the handler that runs once the messages were fetched
IdleResult(chatData, messagesData) ==
  LET messages == IF messagesData.items.set THEN messagesData.items.value
                  ELSE <<>>
      assistantMessages == AssistantMessages(messages)
      fullResponse == Trim(CollectText(assistantMessages))
  IN IF Len(assistantMessages) = 0
     THEN [status |-> "processing",
           message |-> ProcessingMessage,
           chat_status |-> chatData.status]
     ELSE [status |-> "completed",
           response |-> IF fullResponse # <<>> THEN fullResponse
                        ELSE NoTextResponse,
           message_count |-> Len(messages),
           assistant_message_count |-> Len(assistantMessages),
           chat_status |-> chatData.status]

\* what the remote service answers to GET /api/chats/{id} and to
\* GET /api/messages?chat_id={id}
GetStatuses(chat_id) ==
  IF chat_id \in DOMAIN remote THEN {200, 500} ELSE {404, 500}

check_agent_response(chat_id, chatStatus, messagesStatus) ==
  LET op == "check_agent_response"
      args == [chat_id |-> chat_id]
      checkCountKey == CheckCountKey(chat_id)
      previousCount == StoreGet(store, checkCountKey)
      checkCount == NextCheckCount(previousCount)
      chatCall == Request("GET /api/chats", chat_id, <<>>, chatStatus)
      messagesCall == Request("GET /api/messages", chat_id, <<>>,
                              messagesStatus)
      chatData == remote[chat_id]
      early == StatusResult(chatData, checkCount, now)
      messagesData == [items |-> Val(chatData.messages)]
  IN
  IF MissingToken(env.BLINK_API_TOKEN)
  THEN /\ chatStatus = 200 /\ messagesStatus = 200
       /\ lastCall' = Throw(op, args, BLINK_API_TOKEN_missing, 0)
       /\ calls' = <<>>
       /\ UNCHANGED <<slack, tasks, env, store, remote, nextId, now>>
  ELSE
  /\ checkCount <= MaxCount
  /\ store' = StoreSet(store, checkCountKey, toString(checkCount))
  /\ chatStatus \in GetStatuses(chat_id)
  /\ UNCHANGED <<slack, tasks, env, remote, nextId, now>>
  /\ IF ~Ok(chatStatus)
     THEN /\ messagesStatus = 200
          /\ calls' = <<chatCall>>
          /\ lastCall' = ThrowResponse(op, args, "Failed to get chat",
                                       chatStatus)
     ELSE IF early.set
     THEN /\ messagesStatus = 200
          /\ calls' = <<chatCall>>
          /\ lastCall' = Return(op, args, early.value)
     ELSE /\ messagesStatus \in GetStatuses(chat_id)
          /\ calls' = <<chatCall, messagesCall>>
          /\ lastCall' =
               IF ~Ok(messagesStatus)
               THEN ThrowResponse(op, args, "Failed to get chat messages",
                                  messagesStatus)
               ELSE Return(op, args, IdleResult(chatData, messagesData))

----------------------------------------------------------------------------
(* list_agents *)

AgentsPerOrg == 2

\* GET /api/organizations
RemoteOrgs == [i \in 1..MaxOrgs |-> [id |-> OrgId(i)]]

\* GET /api/agents?organization_id=...: the items of one organization
\* (the organization number i has i % (AgentsPerOrg + 1) agents)
RemoteAgents(organization_id) ==
  LET i == CHOOSE k \in 1..MaxOrgs : OrgId(k) = organization_id
  IN [j \in 1..(i % (AgentsPerOrg + 1)) |->
        [id |-> organization_id \o <<"-">> \o AgentId(j),
         organization_id |-> organization_id]]

RECURSIVE Flat(_)
\* Array.prototype.flat()
Flat(arrays) ==
  IF arrays = <<>> THEN <<>> ELSE Head(arrays) \o Flat(Tail(arrays))

\* the response is read without looking at agentsResponse.ok
OrgContribution_IgnoreStatus(org, status) == RemoteAgents(org.id)

\* the callback of orgs.map: one organization's contribution
OrgContribution(org, status) ==
  IF ~Ok(status) THEN <<>> ELSE RemoteAgents(org.id)

\* the fan-out over all organizations
AllAgents(orgs, agentsStatus) ==
  Flat([i \in 1..Len(orgs) |-> OrgContribution(orgs[i], agentsStatus[i])])

\* the configured organization wins over the one the caller names
SelectOrg_EnvFirst(organization_id, envOrgId) ==
  IF Truthy(envOrgId) THEN envOrgId ELSE organization_id

\* organization_id || process.env.BLINK_ORG_ID
SelectOrg(organization_id, envOrgId) ==
  IF Truthy(organization_id) THEN organization_id ELSE envOrgId

list_agents(organization_id, orgsStatus, agentsStatus) ==
  LET op == "list_agents"
      args == [organization_id |-> organization_id]
      orgId == SelectOrg(organization_id, env.BLINK_ORG_ID)
      orgsCall == Request("GET /api/organizations", <<>>, <<>>, orgsStatus)
      agentsCall(o, st) == Request("GET /api/agents", o, <<>>, st)
  IN
  /\ UNCHANGED <<slack, tasks, env, store, remote, nextId, now>>
  /\ IF MissingToken(env.BLINK_API_TOKEN)
     THEN /\ orgsStatus = 200 /\ agentsStatus = [i \in 1..MaxOrgs |-> 200]
          /\ calls' = <<>>
          /\ lastCall' = Throw(op, args, BLINK_API_TOKEN_missing_list, 0)
     ELSE IF ~Truthy(orgId)
     THEN IF ~Ok(orgsStatus)
          THEN /\ agentsStatus = [i \in 1..MaxOrgs |-> 200]
               /\ calls' = <<orgsCall>>
               /\ lastCall' = Throw(op, args, "Failed to list organizations",
                                    orgsStatus)
          ELSE /\ calls' = <<orgsCall>> \o
                           [i \in 1..MaxOrgs |->
                              agentsCall(RemoteOrgs[i].id, agentsStatus[i])]
               /\ lastCall' = Return(op, args,
                                     AllAgents(RemoteOrgs, agentsStatus))
     ELSE /\ orgsStatus = 200
          /\ \A i \in 2..MaxOrgs : agentsStatus[i] = 200
          /\ calls' = <<agentsCall(orgId.value, agentsStatus[1])>>
          /\ lastCall' = IF ~Ok(agentsStatus[1])
                         THEN Throw(op, args, "Failed to list agents",
                                    agentsStatus[1])
                         ELSE Return(op, args, RemoteAgents(orgId.value))

----------------------------------------------------------------------------
(* The environment: the remote service and the clock *)

AssistantMessage(t) == [role |-> "assistant", parts |-> Val(<<TextPart(t)>>)]

\* the chat moves to another status
RemoteSetStatus(chat_id, st) ==
  /\ chat_id \in DOMAIN remote
  /\ remote[chat_id].status # st
  /\ remote' = [remote EXCEPT ![chat_id].status = st]
  /\ calls' = <<>> /\ lastCall' = NoCall
  /\ UNCHANGED <<slack, tasks, env, store, nextId, now>>

\* the chat's error field is set
RemoteSetError(chat_id, e) ==
  /\ chat_id \in DOMAIN remote
  /\ ~remote[chat_id].error.set
  /\ remote' = [remote EXCEPT ![chat_id].error = e]
  /\ calls' = <<>> /\ lastCall' = NoCall
  /\ UNCHANGED <<slack, tasks, env, store, nextId, now>>

\* the specialist adds a message to the chat
RemoteReply(chat_id, m) ==
  /\ chat_id \in DOMAIN remote
  /\ Len(remote[chat_id].messages) < MaxMsgs
  /\ remote' = [remote EXCEPT ![chat_id].messages = Append(@, m)]
  /\ calls' = <<>> /\ lastCall' = NoCall
  /\ UNCHANGED <<slack, tasks, env, store, nextId, now>>

\* the chat disappears from the remote service
RemoteDeleteChat(chat_id) ==
  /\ chat_id \in DOMAIN remote
  /\ remote' = [x \in DOMAIN remote \ {chat_id} |-> remote[x]]
  /\ calls' = <<>> /\ lastCall' = NoCall
  /\ UNCHANGED <<slack, tasks, env, store, nextId, now>>

\* time passes
Tick(t) ==
  /\ t > now
  /\ now' = t
  /\ calls' = <<>> /\ lastCall' = NoCall
  /\ UNCHANGED <<slack, tasks, env, store, remote, nextId>>

----------------------------------------------------------------------------
(* The coordinator session: delegations and polls of one conversation, with *)
(* the remote chats progressing, answering and disappearing in between      *)

Token == Val(<<"t">>)

SessionEnvs ==
  {[BLINK_API_TOKEN |-> t, BLINK_ORG_ID |-> Unset] : t \in {Unset, Token}}

SessionQueries == {<<"q">>}
SessionReplies == {AssistantMessage(<<"a">>)}
HttpStatuses == {200, 404, 500}

Init ==
  /\ env \in SessionEnvs
  /\ store = EmptyStore
  /\ remote = NoChats
  /\ nextId = 1
  /\ now = 0
  /\ calls = <<>>
  /\ lastCall = NoCall
  /\ slack = NoStatus
  /\ tasks = NoTasks

Delegate ==
  \E agent_id \in AgentIds, query \in SessionQueries,
     force_new_chat \in BOOLEAN, appendStatus \in HttpStatuses,
     createStatus \in HttpStatuses, st \in Statuses :
    delegate_to_agent(agent_id, OrgId(1), query, force_new_chat,
                      appendStatus, createStatus, st)

Check ==
  \E chat_id \in ChatIds, chatStatus \in HttpStatuses,
     messagesStatus \in HttpStatuses :
    check_agent_response(chat_id, chatStatus, messagesStatus)

Progress ==
  \E chat_id \in ChatIds, st \in Statuses : RemoteSetStatus(chat_id, st)

Reply ==
  \E chat_id \in ChatIds, m \in SessionReplies : RemoteReply(chat_id, m)

Expire ==
  \E chat_id \in ChatIds : RemoteDeleteChat(chat_id)

Next == Delegate \/ Check \/ Progress \/ Reply \/ Expire

Spec == Init /\ [][Next]_vars

----------------------------------------------------------------------------
(* Polling one chat: check_agent_response applied again and again to a chat *)
(* whose snapshot is drawn from the values the remote service can report,   *)
(* while time passes and the remote error field may get set                 *)

ToolPart == [type |-> "tool-call", text |-> Unset]

PollMessages ==
  { UserMessage(<<"q">>),
    AssistantMessage(<<"a">>),
    AssistantMessage(<<"b">>),
    [role |-> "assistant",
     parts |-> Val(<<TextPart(<<" ", "c">>), TextPart(<<>>), ToolPart,
                     TextPart(<<"d", "\n">>)>>)],
    [role |-> "assistant", parts |-> Unset],
    AssistantMessage(<<" ">>) }

RECURSIVE SeqsUpTo(_, _)
\* the sequences over S of length at most n
SeqsUpTo(S, n) ==
  IF n = 0 THEN {<<>>}
  ELSE LET shorter == SeqsUpTo(S, n - 1)
       IN shorter \cup {Append(q, x) : q \in shorter, x \in S}

PollErrors == {Val(<<"e">>), Val(<<>>)}
PollTimes ==
  {timeoutMs - 1000, timeoutMs, timeoutMs + 1, timeoutMs + 1000}

InitPoll ==
  /\ env = [BLINK_API_TOKEN |-> Token, BLINK_ORG_ID |-> Unset]
  /\ \E c \in {Unset, Val(<<"0">>)} :
       store = IF c.set THEN StoreSet(EmptyStore, CheckCountKey(ChatId(1)), c.value)
               ELSE EmptyStore
  /\ \E st \in Statuses, ms \in SeqsUpTo(PollMessages, MaxMsgs) :
       remote = [x \in {ChatId(1)} |->
                   [status |-> st, created_at |-> IsoDate(0), error |-> Unset,
                    messages |-> ms]]
  /\ nextId = 2
  /\ now = 0
  /\ calls = <<>>
  /\ lastCall = NoCall
  /\ slack = NoStatus
  /\ tasks = NoTasks

Poll ==
  \E chatStatus \in HttpStatuses, messagesStatus \in HttpStatuses :
    check_agent_response(ChatId(1), chatStatus, messagesStatus)

Fail == \E e \in PollErrors : RemoteSetError(ChatId(1), e)

Wait == \E t \in PollTimes : Tick(t)

NextPoll == Poll \/ Fail \/ Wait

SpecPoll == InitPoll /\ [][NextPoll]_vars

----------------------------------------------------------------------------
(* One delegation: delegate_to_agent applied once to a session in which the *)
(* agent has no chat yet, has a chat of some age, or has a chat that has    *)
(* disappeared from the remote service, for every query up to MaxQueryLen   *)

QueryChars == {"a", " ", "\n", "\"", "\\"}
Queries == SeqsUpTo(QueryChars, MaxQueryLen)

\* the freshness threshold of the stale chat detection: chatAge > 1 hour
freshnessMs == 60 * 60 * 1000

DelegateTimes == {1000, freshnessMs, freshnessMs + 1}

\* the poll counts the existing chat may have reached
DelegateCounts == {<<"0">>, <<"2">>}

InitDelegate ==
  /\ env = [BLINK_API_TOKEN |-> Token, BLINK_ORG_ID |-> Unset]
  /\ now \in DelegateTimes
  /\ calls = <<>>
  /\ lastCall = NoCall
  /\ slack = NoStatus
  /\ tasks = NoTasks
  /\ \/ /\ store = EmptyStore
        /\ remote = NoChats
        /\ nextId = 1
     \/ /\ \E c \in DelegateCounts :
             store = StoreSet(StoreAfterCreate(EmptyStore,
                                               AgentChatKey(AgentId(1)),
                                               ChatId(1)),
                              CheckCountKey(ChatId(1)), c)
        /\ \E st \in Statuses :
             remote = RemoteCreate(NoChats, ChatId(1),
                                   CreateBody(OrgId(1), AgentId(1), <<"q">>),
                                   st, 0)
        /\ nextId = 2
     \/ /\ \E c \in DelegateCounts :
             store = StoreSet(StoreAfterCreate(EmptyStore,
                                               AgentChatKey(AgentId(1)),
                                               ChatId(1)),
                              CheckCountKey(ChatId(1)), c)
        /\ remote = NoChats
        /\ nextId = 2

DelegateOnce ==
  /\ lastCall = NoCall
  /\ \E organization_id \in OrgIds, query \in Queries,
        force_new_chat \in BOOLEAN, appendStatus \in HttpStatuses,
        createStatus \in HttpStatuses, st \in Statuses :
       delegate_to_agent(AgentId(1), organization_id, query, force_new_chat,
                         appendStatus, createStatus, st)

NextDelegate == DelegateOnce

SpecDelegate == InitDelegate /\ [][NextDelegate]_vars

----------------------------------------------------------------------------
(* Discovery: list_agents under every configuration of the environment     *)

ListEnvs ==
  {[BLINK_API_TOKEN |-> t, BLINK_ORG_ID |-> o] :
     t \in {Unset, Val(<<>>), Token},
     o \in {Unset, Val(<<>>)} \cup {Val(x) : x \in OrgIds}}

InitList ==
  /\ env \in ListEnvs
  /\ store = EmptyStore
  /\ remote = NoChats
  /\ nextId = 1
  /\ now = 0
  /\ calls = <<>>
  /\ lastCall = NoCall
  /\ slack = NoStatus
  /\ tasks = NoTasks

List ==
  \E organization_id \in {Unset, Val(<<>>)} \cup {Val(o) : o \in OrgIds},
     orgsStatus \in {200, 500},
     agentsStatus \in [1..MaxOrgs -> {200, 500}] :
    list_agents(organization_id, orgsStatus, agentsStatus)

NextList == List

SpecList == InitList /\ [][NextList]_vars

----------------------------------------------------------------------------
(* The first conversation with an agent: one delegation for an agent that   *)
(* has no chat yet, then polls while the chat progresses and gets answers   *)

ScenarioReplies ==
  {AssistantMessage(<<"v", "2">>), AssistantMessage(<<" ", "x", "\n">>)}

InitScenario ==
  /\ env = [BLINK_API_TOKEN |-> Token, BLINK_ORG_ID |-> Unset]
  /\ store = EmptyStore
  /\ remote = NoChats
  /\ nextId = 1
  /\ now = 0
  /\ calls = <<>>
  /\ lastCall = NoCall
  /\ slack = NoStatus
  /\ tasks = NoTasks

DelegateFirst ==
  /\ AgentChatKey(AgentId(1)) \notin DOMAIN store
  /\ \E query \in SessionQueries, appendStatus \in HttpStatuses,
        createStatus \in HttpStatuses, st \in Statuses :
       delegate_to_agent(AgentId(1), OrgId(1), query, FALSE,
                         appendStatus, createStatus, st)

Answer ==
  \E chat_id \in ChatIds, m \in ScenarioReplies : RemoteReply(chat_id, m)

NextScenario == DelegateFirst \/ Check \/ Progress \/ Answer

SpecScenario == InitScenario /\ [][NextScenario]_vars

----------------------------------------------------------------------------
(* One tool call under every configuration of the credential: the token is  *)
(* not set, empty or set, and the session has no chat yet or has one        *)

CredentialEnvs ==
  {[BLINK_API_TOKEN |-> t, BLINK_ORG_ID |-> Unset] :
     t \in {Unset, Val(<<>>), Token}}

InitCredential ==
  /\ env \in CredentialEnvs
  /\ now = 0
  /\ calls = <<>>
  /\ lastCall = NoCall
  /\ slack = NoStatus
  /\ tasks = NoTasks
  /\ \/ /\ store = EmptyStore
        /\ remote = NoChats
        /\ nextId = 1
     \/ /\ store = StoreSet(StoreAfterCreate(EmptyStore,
                                             AgentChatKey(AgentId(1)),
                                             ChatId(1)),
                            CheckCountKey(ChatId(1)), <<"1">>)
        /\ \E st \in Statuses :
             remote = RemoteCreate(NoChats, ChatId(1),
                                   CreateBody(OrgId(1), AgentId(1), <<"q">>),
                                   st, 0)
        /\ nextId = 2

CallDelegate == lastCall = NoCall /\ Delegate

CallCheck == lastCall = NoCall /\ Check

CallList == lastCall = NoCall /\ List

NextCredential == CallDelegate \/ CallCheck \/ CallList

SpecCredential == InitCredential /\ [][NextCredential]_vars

----------------------------------------------------------------------------
(* Tool calls in flight: execute is an async function, so a call runs from  *)
(* one await to the next and other calls may run in between.  A task is a   *)
(* call suspended at an await, with the locals it has assigned so far.      *)

\* a call of delegate_to_agent.execute that has not run yet
DelegateTask(agent_id, organization_id, query, force_new_chat, s) ==
  [op |-> "delegate_to_agent",
   args |-> [agent_id |-> agent_id, organization_id |-> organization_id,
             query |-> query, force_new_chat |-> force_new_chat],
   pc |-> "get", existingChatId |-> Unset, appendStatus |-> 200,
   createStatus |-> 200, newChatId |-> <<>>,
   outcome |-> "none", value |-> <<>>, storeAtCall |-> s]

\* the call has returned or thrown
Finish(task, outcome, value) ==
  [task EXCEPT !.pc = "done", !.outcome = outcome, !.value = value]

\* up to `await context.store.get(storeKey)`
DelegateGet(t) ==
  LET task == tasks[t]
      storeKey == AgentChatKey(task.args.agent_id)
      existingChatId == StoreGet(store, storeKey)
  IN /\ task.op = "delegate_to_agent" /\ task.pc = "get"
     /\ tasks' = [tasks EXCEPT ![t] =
          IF MissingToken(env.BLINK_API_TOKEN)
          THEN Finish(task, "throw",
                      [message |-> BLINK_API_TOKEN_missing, status |-> 0])
          ELSE [task EXCEPT
                  !.existingChatId = existingChatId,
                  !.pc = IF ReuseExisting(existingChatId,
                                          task.args.force_new_chat)
                         THEN "append" ELSE "create"]]
     /\ UNCHANGED <<slack, env, store, remote, nextId, now, calls, lastCall>>

\* `await fetch(.../api/messages, POST)` and the test of response.ok
DelegateAppend(t) ==
  LET task == tasks[t]
      existingChatId == task.existingChatId.value
  IN /\ task.op = "delegate_to_agent" /\ task.pc = "append"
     /\ \E appendStatus \in AppendStatuses(existingChatId), st \in Statuses :
          LET seen == [task EXCEPT !.appendStatus = appendStatus]
          IN IF Ok(appendStatus)
             THEN /\ remote' = RemoteAppend(remote, existingChatId,
                                 AppendBody(existingChatId, task.args.query),
                                 st)
                  /\ tasks' = [tasks EXCEPT ![t] = [seen EXCEPT !.pc = "reset"]]
             ELSE /\ st = "pending"
                  /\ remote' = remote
                  /\ tasks' = [tasks EXCEPT ![t] =
                       IF NotFound(appendStatus)
                       THEN [seen EXCEPT !.pc = "delete"]
                       ELSE Finish(seen, "throw",
                              [message |-> "Failed to send message to agent",
                               status |-> appendStatus])]
     /\ UNCHANGED <<slack, env, store, nextId, now, calls, lastCall>>

\* `await context.store.delete(storeKey)` after a 404
DelegateDelete(t) ==
  LET task == tasks[t]
  IN /\ task.op = "delegate_to_agent" /\ task.pc = "delete"
     /\ store' = StoreAfterAppendFailure(store,
                   AgentChatKey(task.args.agent_id), task.appendStatus)
     /\ tasks' = [tasks EXCEPT ![t] = [task EXCEPT !.pc = "create"]]
     /\ UNCHANGED <<slack, env, remote, nextId, now, calls, lastCall>>

\* `await context.store.set(checkCountKey, "0")` and the continued result
DelegateReset(t) ==
  LET task == tasks[t]
      existingChatId == task.existingChatId.value
  IN /\ task.op = "delegate_to_agent" /\ task.pc = "reset"
     /\ store' = StoreAfterAppend(store, existingChatId)
     /\ tasks' = [tasks EXCEPT ![t] =
          Finish(task, "return",
                 ContinuedResult(existingChatId, task.args.agent_id,
                                 task.args.query))]
     /\ UNCHANGED <<slack, env, remote, nextId, now, calls, lastCall>>

\* `await fetch(.../api/chats, POST)` and the test of response.ok
DelegateCreate(t) ==
  LET task == tasks[t]
      newChatId == ChatId(nextId)
  IN /\ task.op = "delegate_to_agent" /\ task.pc = "create"
     /\ \E createStatus \in CreateStatuses, st \in Statuses :
          LET seen == [task EXCEPT !.createStatus = createStatus]
          IN IF Ok(createStatus)
             THEN /\ remote' = RemoteCreate(remote, newChatId,
                                 CreateBody(task.args.organization_id,
                                            task.args.agent_id,
                                            task.args.query),
                                 st, now)
                  /\ nextId' = nextId + 1
                  /\ tasks' = [tasks EXCEPT ![t] =
                       [seen EXCEPT !.newChatId = newChatId,
                                    !.pc = "set_chat"]]
             ELSE /\ st = "pending"
                  /\ UNCHANGED <<remote, nextId>>
                  /\ tasks' = [tasks EXCEPT ![t] =
                       Finish(seen, "throw",
                              [message |-> "Failed to communicate with agent",
                               status |-> createStatus])]
     /\ UNCHANGED <<slack, env, store, now, calls, lastCall>>

\* `await context.store.set(storeKey, newChatId)`
DelegateSetChat(t) ==
  LET task == tasks[t]
  IN /\ task.op = "delegate_to_agent" /\ task.pc = "set_chat"
     /\ store' = StoreSet(store, AgentChatKey(task.args.agent_id),
                          task.newChatId)
     /\ tasks' = [tasks EXCEPT ![t] = [task EXCEPT !.pc = "set_count"]]
     /\ UNCHANGED <<slack, env, remote, nextId, now, calls, lastCall>>

\* `await context.store.set(newCheckCountKey, "0")` and the new result
DelegateSetCount(t) ==
  LET task == tasks[t]
  IN /\ task.op = "delegate_to_agent" /\ task.pc = "set_count"
     /\ store' = StoreSet(store, CheckCountKey(task.newChatId), <<"0">>)
     /\ tasks' = [tasks EXCEPT ![t] =
          Finish(task, "return",
                 NewResult(task.newChatId, task.args.agent_id,
                           task.args.query))]
     /\ UNCHANGED <<slack, env, remote, nextId, now, calls, lastCall>>

\* the store a whole call of delegate_to_agent.execute leaves when it runs
\* alone from store s and the remote service answers as the task has seen
DelegateEffect(s, task) ==
  LET storeKey == AgentChatKey(task.args.agent_id)
      existingChatId == StoreGet(s, storeKey)
      reuse == ReuseExisting(existingChatId, task.args.force_new_chat)
      s1 == IF reuse
            THEN StoreAfterAppendFailure(s, storeKey, task.appendStatus)
            ELSE s
  IN IF MissingToken(env.BLINK_API_TOKEN) THEN s
     ELSE IF reuse /\ Ok(task.appendStatus)
     THEN StoreAfterAppend(s, existingChatId.value)
     ELSE IF reuse /\ ~NotFound(task.appendStatus) THEN s
     ELSE IF Ok(task.createStatus)
     THEN StoreAfterCreate(s1, storeKey, task.newChatId)
     ELSE s1

----------------------------------------------------------------------------
(* Concurrent delegations: one delegate_to_agent call per agent, all issued *)
(* at once, their awaits interleaved in every order.  Before the calls an   *)
(* agent has no chat, a live chat, or a chat the remote service has dropped *)

Situations == {"none", "live", "gone"}

\* the number of the chat agent number i has before the calls
ChatOfAgent(sit, i) == Cardinality({j \in 1..i : sit[j] # "none"})

RECURSIVE SituationStore(_, _)
\* the store of a session in which the first i agents are in situation sit
SituationStore(sit, i) ==
  IF i = 0 THEN EmptyStore
  ELSE LET s == SituationStore(sit, i - 1)
       IN IF sit[i] = "none" THEN s
          ELSE StoreSet(StoreAfterCreate(s, AgentChatKey(AgentId(i)),
                                         ChatId(ChatOfAgent(sit, i))),
                        CheckCountKey(ChatId(ChatOfAgent(sit, i))), <<"1">>)

\* the chats the remote service still holds
SituationRemote(sit) ==
  [chat_id \in {ChatId(ChatOfAgent(sit, i)) :
                  i \in {j \in 1..MaxAgents : sit[j] = "live"}} |->
     [status |-> "idle", created_at |-> IsoDate(0), error |-> Unset,
      messages |-> <<UserMessage(<<"q">>)>>]]

InitConcurrent ==
  /\ env = [BLINK_API_TOKEN |-> Token, BLINK_ORG_ID |-> Unset]
  /\ now = 1000
  /\ calls = <<>>
  /\ lastCall = NoCall
  /\ slack = NoStatus
  /\ \E sit \in [1..MaxAgents -> Situations],
        force \in [1..MaxAgents -> BOOLEAN] :
       /\ store = SituationStore(sit, MaxAgents)
       /\ remote = SituationRemote(sit)
       /\ nextId = ChatOfAgent(sit, MaxAgents) + 1
       /\ tasks = [i \in 1..MaxAgents |->
                     DelegateTask(AgentId(i), OrgId(1), <<"q">>, force[i],
                                  SituationStore(sit, MaxAgents))]

NextConcurrent ==
  \E t \in DOMAIN tasks :
    \/ DelegateGet(t)
    \/ DelegateAppend(t)
    \/ DelegateDelete(t)
    \/ DelegateReset(t)
    \/ DelegateCreate(t)
    \/ DelegateSetChat(t)
    \/ DelegateSetCount(t)

SpecConcurrent == InitConcurrent /\ [][NextConcurrent]_vars

----------------------------------------------------------------------------
(* Concurrent polls: MaxPollers calls of check_agent_response on the same   *)
(* chat id, all issued at once, their awaits interleaved in every order     *)

\* a call of check_agent_response.execute that has not run yet
CheckTask(chat_id, s) ==
  [op |-> "check_agent_response", args |-> [chat_id |-> chat_id],
   pc |-> "get", previousCount |-> Unset, checkCount |-> 0,
   chatData |-> <<>>, outcome |-> "none", value |-> <<>>, storeAtCall |-> s]

\* up to `await context.store.get(checkCountKey)`
CheckGet(t) ==
  LET task == tasks[t]
  IN /\ task.op = "check_agent_response" /\ task.pc = "get"
     /\ tasks' = [tasks EXCEPT ![t] =
          IF MissingToken(env.BLINK_API_TOKEN)
          THEN Finish(task, "throw",
                      [message |-> BLINK_API_TOKEN_missing, status |-> 0])
          ELSE [task EXCEPT
                  !.previousCount =
                     StoreGet(store, CheckCountKey(task.args.chat_id)),
                  !.pc = "set"]]
     /\ UNCHANGED <<slack, env, store, remote, nextId, now, calls, lastCall>>

\* checkCount and `await context.store.set(checkCountKey, checkCount.toString())`
CheckSet(t) ==
  LET task == tasks[t]
      checkCount == NextCheckCount(task.previousCount)
  IN /\ task.op = "check_agent_response" /\ task.pc = "set"
     /\ store' = StoreSet(store, CheckCountKey(task.args.chat_id),
                          toString(checkCount))
     /\ tasks' = [tasks EXCEPT ![t] =
          [task EXCEPT !.checkCount = checkCount, !.pc = "chat"]]
     /\ UNCHANGED <<slack, env, remote, nextId, now, calls, lastCall>>

\* `await fetch(.../api/chats/${chat_id})` and the tests on the chat's status
CheckChat(t) ==
  LET task == tasks[t]
      chat_id == task.args.chat_id
  IN /\ task.op = "check_agent_response" /\ task.pc = "chat"
     /\ \E chatStatus \in GetStatuses(chat_id) :
          tasks' = [tasks EXCEPT ![t] =
            IF ~Ok(chatStatus)
            THEN Finish(task, "throw",
                        [message |-> "Failed to get chat",
                         status |-> chatStatus,
                         errorText |-> ErrorText(chatStatus)])
            ELSE LET chatData == remote[chat_id]
                     early == StatusResult(chatData, task.checkCount, now)
                 IN IF early.set
                    THEN Finish(task, "return", early.value)
                    ELSE [task EXCEPT !.chatData = chatData,
                                      !.pc = "messages"]]
     /\ UNCHANGED <<slack, env, store, remote, nextId, now, calls, lastCall>>

\* `await fetch(.../api/messages?chat_id=${chat_id})` and the aggregation
CheckMessages(t) ==
  LET task == tasks[t]
      chat_id == task.args.chat_id
  IN /\ task.op = "check_agent_response" /\ task.pc = "messages"
     /\ \E messagesStatus \in GetStatuses(chat_id) :
          tasks' = [tasks EXCEPT ![t] =
            IF ~Ok(messagesStatus)
            THEN Finish(task, "throw",
                        [message |-> "Failed to get chat messages",
                         status |-> messagesStatus,
                         errorText |-> ErrorText(messagesStatus)])
            ELSE Finish(task, "return",
                        IdleResult(task.chatData,
                                   [items |-> Val(remote[chat_id].messages)]))]
     /\ UNCHANGED <<slack, env, store, remote, nextId, now, calls, lastCall>>

MaxPollers == 2

RaceCounts == {Unset, Val(<<"0">>), Val(<<"1">>)}
RaceErrors == {Unset, Val(<<"e">>)}
RaceMessages ==
  {<<UserMessage(<<"q">>)>>,
   <<UserMessage(<<"q">>), AssistantMessage(<<"a">>)>>}
RaceTimes == {1000, timeoutMs + 1}

InitRace ==
  /\ env = [BLINK_API_TOKEN |-> Token, BLINK_ORG_ID |-> Unset]
  /\ now \in RaceTimes
  /\ calls = <<>>
  /\ lastCall = NoCall
  /\ slack = NoStatus
  /\ nextId = 2
  /\ \E st \in Statuses, e \in RaceErrors, ms \in RaceMessages :
       remote = [x \in {ChatId(1)} |->
                   [status |-> st, created_at |-> IsoDate(0), error |-> e,
                    messages |-> ms]]
  /\ \E c \in RaceCounts :
       /\ store = IF c.set
                  THEN StoreSet(EmptyStore, CheckCountKey(ChatId(1)), c.value)
                  ELSE EmptyStore
       /\ tasks = [i \in 1..MaxPollers |-> CheckTask(ChatId(1), store)]

NextRace ==
  \E t \in DOMAIN tasks :
    \/ CheckGet(t)
    \/ CheckSet(t)
    \/ CheckChat(t)
    \/ CheckMessages(t)

SpecRace == InitRace /\ [][NextRace]_vars

----------------------------------------------------------------------------
(* onModelIntents: the status line of the Slack thread *)

\* String.prototype.toLowerCase on one character
ToLowerCase(c) ==
  IF c = "S" THEN "s" ELSE IF c = "R" THEN "r" ELSE c

\* displayIntent.charAt(0).toLowerCase() + displayIntent.slice(1)
DisplayIntent(modelIntent) ==
  IF Len(modelIntent) > 0
  THEN <<ToLowerCase(modelIntent[1])>> \o Tail(modelIntent)
  ELSE modelIntent

RECURSIVE Unique(_)
\* [...new Set(statuses)]: the first occurrence of every value, in order
Unique(statuses) ==
  IF statuses = <<>> THEN <<>>
  ELSE LET front == SubSeq(statuses, 1, Len(statuses) - 1)
           last == statuses[Len(statuses)]
       IN IF \E i \in 1..Len(front) : front[i] = last
          THEN Unique(front)
          ELSE Append(Unique(front), last)

RECURSIVE Join(_)
\* statuses.join(", ")
Join(statuses) ==
  IF statuses = <<>> THEN <<>>
  ELSE IF Len(statuses) = 1 THEN statuses[1]
  ELSE statuses[1] \o <<",", " ">> \o Join(Tail(statuses))

\* `is ${statuses.join(", ")}...`
WorkingStatus(modelIntents) ==
  <<"i", "s", " ">>
    \o Join(Unique([i \in 1..Len(modelIntents) |->
                      DisplayIntent(modelIntents[i])]))
    \o <<".", ".", ".">>

\* the status posted although the request was aborted
ClearedStatus_Working == <<"i", "s", " ", ".", ".", ".">>

\* status: `` when the request was aborted
ClearedStatus == <<>>

\* metadata is what slackbot.findLastMessageMetadata(messages) found, aborted
\* is abortSignal?.aborted, setStatusOk tells whether setStatus resolved
onModelIntents(modelIntents, metadata, aborted, setStatusOk) ==
  LET op == "onModelIntents"
      args == [modelIntents |-> modelIntents, metadata |-> metadata,
               aborted |-> aborted]
      status == IF aborted THEN ClearedStatus
                ELSE WorkingStatus(modelIntents)
      setStatus == Request("assistant.threads.setStatus", metadata.value,
                           status, IF setStatusOk THEN 200 ELSE 500)
  IN /\ lastCall' = Return(op, args, <<>>)
     /\ IF ~metadata.set
        THEN /\ setStatusOk
             /\ calls' = <<>>
             /\ slack' = slack
        ELSE /\ calls' = <<setStatus>>
             /\ slack' = IF setStatusOk THEN status ELSE slack
     /\ UNCHANGED <<env, store, remote, nextId, now, tasks>>

----------------------------------------------------------------------------
(* The status line over a request: onModelIntents called with every list    *)
(* of up to MaxIntents intents, with and without Slack metadata, before and *)
(* after the request was aborted                                            *)

MaxIntents == 2

ModelIntents == {<<"S", "e">>, <<"s", "e">>, <<"R">>, <<>>}

\* the channel and the thread of the conversation
SlackThread == [channel |-> <<"C">>, thread_ts |-> <<"1">>]

InitIntents ==
  /\ env = [BLINK_API_TOKEN |-> Token, BLINK_ORG_ID |-> Unset]
  /\ store = EmptyStore
  /\ remote = NoChats
  /\ nextId = 1
  /\ now = 0
  /\ calls = <<>>
  /\ lastCall = NoCall
  /\ tasks = NoTasks
  /\ slack = NoStatus

Intents ==
  \E modelIntents \in SeqsUpTo(ModelIntents, MaxIntents),
     metadata \in {Unset, Val(SlackThread)},
     aborted \in BOOLEAN, setStatusOk \in BOOLEAN :
    onModelIntents(modelIntents, metadata, aborted, setStatusOk)

NextIntents == Intents

SpecIntents == InitIntents /\ [][NextIntents]_vars

----------------------------------------------------------------------------
(* Units of created_at: a chat created at one instant, whose created_at is  *)
(* sent as an ISO string, as Unix seconds or as Unix milliseconds, polled   *)
(* around the two minutes of the timeout                                    *)

\* the instant the chat was created, in milliseconds
UnitsEpoch == 2000000

InitUnits ==
  /\ env = [BLINK_API_TOKEN |-> Token, BLINK_ORG_ID |-> Unset]
  /\ store = EmptyStore
  /\ \E st \in Statuses,
        created_at \in {IsoDate(UnitsEpoch), UnixSeconds(UnitsEpoch),
                        UnixMillis(UnitsEpoch)},
        ms \in SeqsUpTo(SessionReplies, 1) :
       remote = [x \in {ChatId(1)} |->
                   [status |-> st, created_at |-> created_at, error |-> Unset,
                    messages |-> <<UserMessage(<<"q">>)>> \o ms]]
  /\ nextId = 2
  /\ now = UnitsEpoch
  /\ calls = <<>>
  /\ lastCall = NoCall
  /\ tasks = NoTasks
  /\ slack = NoStatus

WaitUnits == \E t \in PollTimes : Tick(UnitsEpoch + t)

NextUnits == Poll \/ WaitUnits

SpecUnits == InitUnits /\ [][NextUnits]_vars

----------------------------------------------------------------------------
(* A caller that keeps polling one chat while the specialist works: the     *)
(* chat goes from pending over streaming to idle, the specialist adds its   *)
(* messages while it streams, and the clock passes the timeout.  The        *)
(* counter's bound would stop the caller, so the last check the bound       *)
(* allows is kept for a poll whose requests succeed once the chat is idle.  *)

\* the messages the specialist may add
LiveReplies ==
  { AssistantMessage(<<"a">>),
    AssistantMessage(<<" ", "b">>),
    [role |-> "assistant", parts |-> Unset] }

InitLive ==
  /\ env = [BLINK_API_TOKEN |-> Token, BLINK_ORG_ID |-> Unset]
  /\ store = EmptyStore
  /\ remote = [x \in {ChatId(1)} |->
                 [status |-> "pending", created_at |-> IsoDate(0),
                  error |-> Unset, messages |-> <<UserMessage(<<"q">>)>>]]
  /\ nextId = 2
  /\ now = 0
  /\ calls = <<>>
  /\ lastCall = NoCall
  /\ tasks = NoTasks
  /\ slack = NoStatus

\* the chat starts to stream, then becomes idle
Advance ==
  \/ /\ remote[ChatId(1)].status = "pending"
     /\ RemoteSetStatus(ChatId(1), "streaming")
  \/ /\ remote[ChatId(1)].status = "streaming"
     /\ RemoteSetStatus(ChatId(1), "idle")

\* the specialist adds a message while it streams
Stream ==
  /\ remote[ChatId(1)].status = "streaming"
  /\ \E m \in LiveReplies : RemoteReply(ChatId(1), m)

\* a poll both of whose requests succeed: of the chat once it is idle and has
\* stopped changing, or while one more check stays within the counter's bound
PollOk ==
  /\ \/ remote[ChatId(1)].status = "idle"
     \/ NextCheckCount(StoreGet(store, CheckCountKey(ChatId(1)))) < MaxCount
  /\ check_agent_response(ChatId(1), 200, 200)

\* a poll one of whose requests fails, while one more check stays within the
\* counter's bound
PollFailing ==
  /\ NextCheckCount(StoreGet(store, CheckCountKey(ChatId(1)))) < MaxCount
  /\ \E chatStatus, messagesStatus \in {200, 500} :
       /\ ~(chatStatus = 200 /\ messagesStatus = 200)
       /\ check_agent_response(ChatId(1), chatStatus, messagesStatus)

NextLive == PollOk \/ PollFailing \/ Advance \/ Stream \/ Wait

\* the caller keeps polling, and the service does not fail every request
SpecLive == InitLive /\ [][NextLive]_vars /\ WF_vars(PollOk)

----------------------------------------------------------------------------
(* Concurrent delegations to one agent: MaxPollers delegate_to_agent calls  *)
(* for the same agent, all issued at once, their awaits interleaved in      *)
(* every order; the agent has no chat, a live chat or a chat that is gone   *)

InitSameAgent ==
  /\ env = [BLINK_API_TOKEN |-> Token, BLINK_ORG_ID |-> Unset]
  /\ now = 1000
  /\ calls = <<>>
  /\ lastCall = NoCall
  /\ slack = NoStatus
  /\ \E first \in Situations, force \in [1..MaxPollers -> BOOLEAN] :
       \* the first agent is in situation first, the others have no chat
       LET sit == [i \in 1..MaxAgents |-> IF i = 1 THEN first ELSE "none"]
       IN /\ store = SituationStore(sit, MaxAgents)
          /\ remote = SituationRemote(sit)
          /\ nextId = ChatOfAgent(sit, MaxAgents) + 1
          /\ tasks = [i \in 1..MaxPollers |->
                        DelegateTask(AgentId(1), OrgId(1), <<"q">>, force[i],
                                     SituationStore(sit, MaxAgents))]

SpecSameAgent == InitSameAgent /\ [][NextConcurrent]_vars

----------------------------------------------------------------------------
(* Properties *)

CheckReturned ==
  lastCall.op = "check_agent_response" /\ lastCall.outcome = "return"

DelegateCalled == lastCall.op = "delegate_to_agent"

DelegateReturned == DelegateCalled /\ lastCall.outcome = "return"

\* the chat the last check_agent_response looked at, as the service holds it
PolledChat == remote[lastCall.args.chat_id]

\* the number stored under check_count:<chat_id>, 0 when there is none
StoredCount(s, chat_id) ==
  IF CheckCountKey(chat_id) \in DOMAIN s
  THEN ParseInt(s[CheckCountKey(chat_id)]) ELSE 0

\* C1 as stated: whenever the status payload carries a non-null error field,
\* check_agent_response returns status "error", whatever the remote status and
\* the elapsed time.
C1_NonNullErrorWins ==
  (CheckReturned /\ PolledChat.error.set) => lastCall.value.status = "error"

\* C1 amended: whenever the status payload carries a non-null, non-empty error
\* text, check_agent_response returns status "error" (never "processing",
\* "timeout" or "completed"), whatever the remote status and the elapsed time.
C1_ErrorTextWins ==
  (CheckReturned /\ PolledChat.error.set /\ PolledChat.error.value # <<>>)
    => /\ lastCall.value.status = "error"
       /\ lastCall.value.status \notin {"processing", "timeout", "completed"}

C1_Witness ==
  /\ CheckReturned
  /\ PolledChat.error = Val(<<"e">>)
  /\ PolledChat.status = "streaming"
  /\ lastCall.value.status = "error"

\* C2: every check_agent_response that returns while the chat is streaming
\* with a null error returns "processing", leaves the stored check_count one
\* above its value before the call, and returns that stored value.
C2_StreamingPoll ==
  [][ (/\ lastCall'.op = "check_agent_response"
       /\ lastCall'.outcome = "return"
       /\ remote'[lastCall'.args.chat_id].status = "streaming"
       /\ ~remote'[lastCall'.args.chat_id].error.set)
      => /\ lastCall'.value.status = "processing"
         /\ StoredCount(store', lastCall'.args.chat_id)
              = StoredCount(store, lastCall'.args.chat_id) + 1
         /\ lastCall'.value.check_count
              = StoredCount(store', lastCall'.args.chat_id) ]_vars

C2_Witness ==
  /\ CheckReturned
  /\ PolledChat.status = "streaming"
  /\ ~PolledChat.error.set
  /\ lastCall.value.status = "processing"
  /\ lastCall.value.check_count = 2
  /\ store[CheckCountKey(lastCall.args.chat_id)] = <<"2">>

\* C3: for a chat with null error whose status is neither streaming nor idle,
\* the result is "timeout" exactly when Date.now() minus createdAt exceeds two
\* minutes and "processing" otherwise: "timeout" at 2 min + 1 s, "processing"
\* at 1 min 59 s.
C3_TimeoutBoundary ==
  (/\ CheckReturned
   /\ ~PolledChat.error.set
   /\ PolledChat.status \notin {"streaming", "idle"})
    => LET elapsed == now - PolledChat.created_at.ms
       IN /\ lastCall.value.status \in {"timeout", "processing"}
          /\ (lastCall.value.status = "timeout") <=> (elapsed > 120000)
          /\ elapsed = 121000 => lastCall.value.status = "timeout"
          /\ elapsed = 119000 => lastCall.value.status = "processing"

C3_Witness ==
  /\ CheckReturned
  /\ ~PolledChat.error.set
  /\ PolledChat.status = "pending"
  /\ now - PolledChat.created_at.ms = 121000
  /\ lastCall.value.status = "timeout"

RECURSIVE TextsOfParts(_, _)
\* the texts of the text-typed parts, with or without the empty ones
TextsOfParts(parts, keepEmpty) ==
  IF parts = <<>> THEN <<>>
  ELSE LET part == Head(parts)
           rest == TextsOfParts(Tail(parts), keepEmpty)
       IN IF part.type = "text" /\ part.text.set
             /\ (keepEmpty \/ part.text.value # <<>>)
          THEN <<part.text.value>> \o rest ELSE rest

RECURSIVE AssistantTexts(_, _)
\* the texts of the text-typed parts of the assistant messages, in order
AssistantTexts(messages, keepEmpty) ==
  IF messages = <<>> THEN <<>>
  ELSE LET m == Head(messages)
           rest == AssistantTexts(Tail(messages), keepEmpty)
       IN IF m.role = "assistant" /\ m.parts.set
          THEN TextsOfParts(m.parts.value, keepEmpty) \o rest ELSE rest

RECURSIVE JoinBlankLine(_)
\* the texts separated by a blank line
JoinBlankLine(texts) ==
  IF texts = <<>> THEN <<>>
  ELSE IF Len(texts) = 1 THEN texts[1]
  ELSE texts[1] \o <<"\n", "\n">> \o JoinBlankLine(Tail(texts))

HasAssistant(messages) ==
  \E i \in 1..Len(messages) : messages[i].role = "assistant"

IdleWithAnswer ==
  /\ CheckReturned
  /\ PolledChat.status = "idle"
  /\ ~PolledChat.error.set
  /\ HasAssistant(PolledChat.messages)

\* C4 as stated: on an idle chat with null error and at least one assistant
\* message the result is "completed" and its response is the text of every
\* text-typed part of every assistant message, in message order, separated by
\* a blank line and trimmed.
C4_AllAssistantText ==
  IdleWithAnswer
    => /\ lastCall.value.status = "completed"
       /\ lastCall.value.response
            = Trim(JoinBlankLine(AssistantTexts(PolledChat.messages, TRUE)))

\* C4 amended: on an idle chat with null error and at least one assistant
\* message the result is "completed" and its response is the text of every
\* non-empty text-typed part of every assistant message, in message order,
\* separated by a blank line and trimmed (empty text parts add neither text
\* nor separator); when nothing is left after trimming the response is
\* "Agent returned no text response".  Other messages contribute nothing.
C4_NonEmptyAssistantText ==
  IdleWithAnswer
    => LET text == Trim(JoinBlankLine(AssistantTexts(PolledChat.messages, FALSE)))
       IN /\ lastCall.value.status = "completed"
          /\ lastCall.value.response
               = IF text = <<>> THEN NoTextResponse ELSE text

C4_Witness ==
  /\ CheckReturned
  /\ PolledChat.status = "idle"
  /\ PolledChat.messages = <<AssistantMessage(<<"a">>), AssistantMessage(<<"b">>)>>
  /\ lastCall.value.status = "completed"
  /\ lastCall.value.response = <<"a", "\n", "\n", "b">>

\* C5: when the append to the stored chat answers 404, the record of the old
\* chat is gone from agent_chat:<agentId>, a chat is created, and when the
\* creation succeeds the handle is new (continued = false) with another chat
\* id, stored under agent_chat:<agentId> with check_count 0; the 404 is never
\* the error of the call.
C5_NotFoundRecovers ==
  (/\ DelegateCalled
   /\ Len(calls) >= 1
   /\ calls[1].op = "POST /api/messages"
   /\ calls[1].status = 404)
    => LET old == calls[1].target
           key == AgentChatKey(lastCall.args.agent_id)
       IN /\ ~(key \in DOMAIN store /\ store[key] = old)
          /\ Len(calls) = 2
          /\ calls[2].op = "POST /api/chats"
          /\ Ok(calls[2].status)
               => /\ lastCall.outcome = "return"
                  /\ lastCall.value.continued_conversation = FALSE
                  /\ lastCall.value.chat_id # old
                  /\ key \in DOMAIN store
                  /\ store[key] = lastCall.value.chat_id
                  /\ CheckCountKey(lastCall.value.chat_id) \in DOMAIN store
                  /\ store[CheckCountKey(lastCall.value.chat_id)] = <<"0">>
          /\ ~Ok(calls[2].status)
               => /\ lastCall.outcome = "throw"
                  /\ lastCall.value.message = "Failed to communicate with agent"

C5_Witness ==
  /\ DelegateReturned
  /\ Len(calls) = 2
  /\ calls[1].op = "POST /api/messages"
  /\ calls[1].status = 404
  /\ calls[1].target = ChatId(1)
  /\ lastCall.value.chat_id = ChatId(2)
  /\ lastCall.value.continued_conversation = FALSE
  /\ store[AgentChatKey(AgentId(1))] = ChatId(2)

\* C6: when agent_chat:<agentId> holds a chat older than the freshness
\* threshold of one hour, delegate with forceNewChat = false does not append to
\* it: it creates a new chat and, on success, overwrites agent_chat:<agentId>
\* with the new chat id.
C6_StaleChatRecreated ==
  [][ LET key == AgentChatKey(lastCall'.args.agent_id)
      IN (/\ lastCall'.op = "delegate_to_agent"
          /\ Truthy(env.BLINK_API_TOKEN)
          /\ ~lastCall'.args.force_new_chat
          /\ key \in DOMAIN store
          /\ store[key] \in DOMAIN remote
          /\ now - remote[store[key]].created_at.ms > 3600000)
         => /\ Len(calls') = 1
            /\ calls'[1].op = "POST /api/chats"
            /\ Ok(calls'[1].status)
                 => /\ lastCall'.outcome = "return"
                    /\ lastCall'.value.continued_conversation = FALSE
                    /\ store'[key] = lastCall'.value.chat_id
                    /\ store'[key] # store[key] ]_vars

\* the text of the last message the service holds for a chat
LastText(chat_id) ==
  LET m == remote[chat_id].messages[Len(remote[chat_id].messages)]
  IN m.parts.value[1].text.value

\* C7: the text delegate puts on the wire decodes to exactly the query, on the
\* append path and on the create path, the service stores exactly the query as
\* a user message, and the returned handle carries exactly the query.
C7_Verbatim ==
  DelegateCalled
    => /\ \A i \in 1..Len(calls) :
            /\ JsonParse(calls[i].body.text) = lastCall.args.query
            /\ Ok(calls[i].status)
                 => /\ LastText(calls[i].target) = lastCall.args.query
                    /\ remote[calls[i].target]
                         .messages[Len(remote[calls[i].target].messages)].role
                         = "user"
       /\ lastCall.outcome = "return"
            => /\ lastCall.value.query = lastCall.args.query
               /\ Len(calls) >= 1

C7_Witness ==
  /\ DelegateReturned
  /\ lastCall.args.query = <<" ", "\"">>
  /\ lastCall.value.continued_conversation
  /\ lastCall.value.query = <<" ", "\"">>
  /\ LastText(lastCall.value.chat_id) = <<" ", "\"">>

\* the place of an agent in the roster: organizations in the order of the
\* organization list, agents in the order of their organization's listing
Rank(agent) ==
  LET i == CHOOSE k \in 1..MaxOrgs : OrgId(k) = agent.organization_id
      j == CHOOSE k \in 1..Len(RemoteAgents(OrgId(i))) :
             RemoteAgents(OrgId(i))[k] = agent
  IN i * (AgentsPerOrg + 2) + j

FanOut ==
  /\ lastCall.op = "list_agents"
  /\ Truthy(env.BLINK_API_TOKEN)
  /\ ~lastCall.args.organization_id.set
  /\ ~Truthy(env.BLINK_ORG_ID)
  /\ Len(calls) >= 1
  /\ Ok(calls[1].status)

\* C8: discovery without an organization id (none given, none configured)
\* whose organization listing succeeded returns, whatever agent listings
\* failed, exactly the agents of the organizations whose listing succeeded, in
\* organization order; it is no error.
C8_PartialDiscovery ==
  FanOut
    => LET okOrgs == {i \in 1..MaxOrgs : Ok(calls[i + 1].status)}
           listed == UNION {{RemoteAgents(OrgId(i))[j] :
                               j \in 1..Len(RemoteAgents(OrgId(i)))} :
                            i \in okOrgs}
           result == lastCall.value
       IN /\ lastCall.outcome = "return"
          /\ Len(calls) = MaxOrgs + 1
          /\ {result[k] : k \in 1..Len(result)} = listed
          /\ \A k, l \in 1..Len(result) :
               k < l => Rank(result[k]) < Rank(result[l])

C8_Witness ==
  /\ FanOut
  /\ lastCall.outcome = "return"
  /\ ~Ok(calls[2].status)
  /\ Ok(calls[3].status)
  /\ lastCall.value = RemoteAgents(OrgId(2))
  /\ Len(lastCall.value) = 2

\* the text of a message with a single text part
OnlyText(m) == m.parts.value[1].text.value

\* the positions of the assistant messages in a history
AssistantAt(messages) ==
  {i \in 1..Len(messages) : messages[i].role = "assistant"}

\* C9: a delegate for an agent without stored record creates a chat and
\* returns a new handle; the first check of that chat while it is streaming
\* returns "processing" with check_count 1; a check of a chat that is idle
\* with one assistant message returns "completed" with that message's text.
C9_Scenario ==
  [][ /\ (/\ lastCall'.op = "delegate_to_agent"
          /\ lastCall'.outcome = "return"
          /\ AgentChatKey(lastCall'.args.agent_id) \notin DOMAIN store)
         => /\ lastCall'.value.continued_conversation = FALSE
            /\ lastCall'.value.chat_id \notin DOMAIN remote
            /\ lastCall'.value.chat_id \in DOMAIN remote'
            /\ StoreGet(store', AgentChatKey(lastCall'.args.agent_id))
                 = Val(lastCall'.value.chat_id)
            /\ StoreGet(store', CheckCountKey(lastCall'.value.chat_id))
                 = Val(<<"0">>)
      /\ (/\ lastCall'.op = "check_agent_response"
          /\ lastCall'.outcome = "return"
          /\ StoreGet(store, CheckCountKey(lastCall'.args.chat_id)) = Val(<<"0">>)
          /\ remote[lastCall'.args.chat_id].status = "streaming"
          /\ ~remote[lastCall'.args.chat_id].error.set)
         => /\ lastCall'.value.status = "processing"
            /\ lastCall'.value.check_count = 1
      /\ (/\ lastCall'.op = "check_agent_response"
          /\ lastCall'.outcome = "return"
          /\ remote[lastCall'.args.chat_id].status = "idle"
          /\ ~remote[lastCall'.args.chat_id].error.set
          /\ Cardinality(AssistantAt(remote[lastCall'.args.chat_id].messages)) = 1)
         => LET messages == remote[lastCall'.args.chat_id].messages
                m == messages[CHOOSE i \in AssistantAt(messages) : TRUE]
            IN /\ lastCall'.value.status = "completed"
               /\ (OnlyText(m) # <<>> /\ Trim(OnlyText(m)) = OnlyText(m))
                    => lastCall'.value.response = OnlyText(m) ]_vars

C9_Witness ==
  /\ CheckReturned
  /\ lastCall.args.chat_id = ChatId(1)
  /\ store[AgentChatKey(AgentId(1))] = ChatId(1)
  /\ store[CheckCountKey(ChatId(1))] = <<"2">>
  /\ PolledChat.status = "idle"
  /\ PolledChat.messages = <<UserMessage(<<"q">>), AssistantMessage(<<"v", "2">>)>>
  /\ lastCall.value.status = "completed"
  /\ lastCall.value.response = <<"v", "2">>

\* C10: every result check_agent_response returns, whatever its status,
\* carries a check_count equal to the value just stored in
\* check_count:<chatId>.
C10_ResultCarriesCount ==
  CheckReturned
    => /\ "check_count" \in DOMAIN lastCall.value
       /\ lastCall.value.check_count
            = StoredCount(store, lastCall.args.chat_id)

\* C11: every result check_agent_response returns, whatever its status
\* (processing, timeout, error or completed), has a message field next to its
\* status field.
C11_ResultCarriesMessage ==
  CheckReturned
    => /\ "status" \in DOMAIN lastCall.value
       /\ "message" \in DOMAIN lastCall.value

\* a step in which delegate_to_agent returned a handle for agent_id
DelegatedTo(agent_id) ==
  /\ lastCall'.op = "delegate_to_agent"
  /\ lastCall'.outcome = "return"
  /\ lastCall'.args.agent_id = agent_id

\* C12: over any sequence of delegate and checkResponse calls,
\* agent_chat:<agentId> is absent or holds one chat id; a successful delegate
\* for the agent leaves it equal to the chat id of the handle it returns, and
\* no other step gives it a new value (it can only be removed), so that the
\* stored id is always the one of the agent's most recent successful delegate.
C12_StoreInvariant ==
  [][\A agent_id \in AgentIds :
       LET storeKey == AgentChatKey(agent_id)
       IN /\ storeKey \in DOMAIN store' => store'[storeKey] \in ChatIds
          /\ DelegatedTo(agent_id)
               => StoreGet(store', storeKey) = Val(lastCall'.value.chat_id)
          /\ ~DelegatedTo(agent_id)
               => \/ storeKey \notin DOMAIN store'
                  \/ StoreGet(store', storeKey) = StoreGet(store, storeKey)]_vars

\* a forced delegation replaced the agent's first chat by a second one
C12_Witness ==
  /\ DelegateReturned
  /\ lastCall.args.agent_id = AgentId(1)
  /\ lastCall.args.force_new_chat
  /\ lastCall.value.chat_id = ChatId(2)
  /\ ChatId(1) \in DOMAIN remote
  /\ StoreGet(store, AgentChatKey(AgentId(1))) = Val(ChatId(2))

\* every stored counter is the decimal form of a non-negative integer
CountsWellFormed ==
  \A chat_id \in ChatIds :
    CheckCountKey(chat_id) \in DOMAIN store
      => LET v == store[CheckCountKey(chat_id)]
         IN ParseInt(v) # NaN /\ ParseInt(v) >= 0 /\ v = toString(ParseInt(v))

\* a step in which check_agent_response got past the credential test for chat_id
PolledStep(chat_id) ==
  /\ lastCall'.op = "check_agent_response"
  /\ lastCall'.args.chat_id = chat_id
  /\ ~(/\ lastCall'.outcome = "throw"
       /\ lastCall'.value.message = BLINK_API_TOKEN_missing)

\* a step in which delegate_to_agent returned a handle for chat_id
DelegatedStep(chat_id) ==
  /\ lastCall'.op = "delegate_to_agent"
  /\ lastCall'.outcome = "return"
  /\ lastCall'.value.chat_id = chat_id

\* C13: check_count:<chatId> is a non-negative integer in every reachable
\* state; every successful delegate (append or creation) leaves the counter
\* of its chat at 0, every checkResponse call adds exactly 1 to the counter
\* of its chat, and no other step changes a counter.
C13_CounterDiscipline ==
  /\ []CountsWellFormed
  /\ [][\A chat_id \in ChatIds :
          /\ DelegatedStep(chat_id)
               => /\ CheckCountKey(chat_id) \in DOMAIN store'
                  /\ StoredCount(store', chat_id) = 0
          /\ PolledStep(chat_id)
               => StoredCount(store', chat_id) = StoredCount(store, chat_id) + 1
          /\ ~DelegatedStep(chat_id) /\ ~PolledStep(chat_id)
               => StoreGet(store', CheckCountKey(chat_id))
                    = StoreGet(store, CheckCountKey(chat_id))]_vars

\* a continued conversation whose counter was reset, polled once since
C13_Witness ==
  /\ CheckReturned
  /\ lastCall.args.chat_id = ChatId(1)
  /\ Len(PolledChat.messages) = 2
  /\ PolledChat.status = "streaming"
  /\ lastCall.value.check_count = 1
  /\ store[CheckCountKey(ChatId(1))] = <<"1">>

\* C14: a poll of a chat whose remote status is "streaming" never returns
\* status "timeout", however long ago the chat was created.
C14_StreamingNeverTimesOut ==
  (CheckReturned /\ PolledChat.status = "streaming")
    => lastCall.value.status # "timeout"

\* a streaming chat polled after more than the two minutes of the timeout
C14_Witness ==
  /\ CheckReturned
  /\ PolledChat.status = "streaming"
  /\ ~PolledChat.error.set
  /\ now - DateGetTime(PolledChat.created_at) > timeoutMs
  /\ lastCall.value.status = "processing"

ToolCalled ==
  lastCall'.op \in {"list_agents", "delegate_to_agent", "check_agent_response"}

\* C15: with the API token absent, list_agents, delegate_to_agent and
\* check_agent_response each throw the configuration error, issue no remote
\* request and change neither the store (check_count included) nor the
\* remote chats.
C15_MissingCredential ==
  [][(ToolCalled /\ ~Truthy(env.BLINK_API_TOKEN))
       => /\ lastCall'.outcome = "throw"
          /\ lastCall'.value.message
               = (IF lastCall'.op = "list_agents"
                  THEN BLINK_API_TOKEN_missing_list
                  ELSE BLINK_API_TOKEN_missing)
          /\ calls' = <<>>
          /\ store' = store
          /\ remote' = remote]_vars

\* a poll without token of a chat whose counter stays at 1
C15_Witness ==
  /\ ~env.BLINK_API_TOKEN.set
  /\ lastCall.op = "check_agent_response"
  /\ lastCall.outcome = "throw"
  /\ lastCall.args.chat_id = ChatId(1)
  /\ ChatId(1) \in DOMAIN remote
  /\ store[CheckCountKey(ChatId(1))] = <<"1">>

\* every call in flight has returned or thrown
AllDone == tasks # NoTasks /\ \A t \in DOMAIN tasks : tasks[t].pc = "done"

\* the orders in which the calls can be run one after the other
Orders ==
  {order \in [DOMAIN tasks -> DOMAIN tasks] :
     \A i, j \in DOMAIN tasks : i # j => order[i] # order[j]}

RECURSIVE RunInOrder(_, _, _)
\* the store after the first i calls of the order ran one at a time
RunInOrder(s, order, i) ==
  IF i = 0 THEN s
  ELSE DelegateEffect(RunInOrder(s, order, i - 1), tasks[order[i]])

\* the keys of a delegation: agent_chat:<own agent> and check_count:<own chat>
OwnKeys(task) ==
  {AgentChatKey(task.args.agent_id)}
    \cup (IF task.existingChatId.set
          THEN {CheckCountKey(task.existingChatId.value)} ELSE {})
    \cup (IF task.newChatId # <<>>
          THEN {CheckCountKey(task.newChatId)} ELSE {})

\* the concurrent delegations are for different agents and different chats
DifferentAgents ==
  \A i, j \in DOMAIN tasks :
    i # j => /\ tasks[i].args.agent_id # tasks[j].args.agent_id
             /\ OwnKeys(tasks[i]) \cap OwnKeys(tasks[j]) = {}

\* C16: however the steps of delegations to different agents interleave, a
\* step of one call changes only agent_chat:<own agent> and
\* check_count:<own chat id>, the keys of two calls never meet, and once all
\* calls are over the store is the one left by running the calls one at a
\* time, in any order.
C16_NoCollision ==
  /\ [](DifferentAgents
        /\ (AllDone
              => \A order \in Orders :
                   store = RunInOrder(tasks[1].storeAtCall, order,
                                      Len(tasks))))
  /\ [][\A k \in DOMAIN store \cup DOMAIN store' :
          StoreGet(store', k) # StoreGet(store, k)
            => \E t \in DOMAIN tasks :
                 tasks'[t] # tasks[t] /\ k \in OwnKeys(tasks'[t])]_vars

\* two new chats created while the other call was between its awaits: the
\* second agent's chat was created first, the first agent's record written
\* first
C16_Witness ==
  /\ AllDone
  /\ tasks[1].storeAtCall = EmptyStore
  /\ tasks[1].outcome = "return" /\ tasks[2].outcome = "return"
  /\ tasks[1].value.chat_id = ChatId(2)
  /\ tasks[2].value.chat_id = ChatId(1)
  /\ store = StoreAfterCreate(StoreAfterCreate(EmptyStore,
                                                AgentChatKey(AgentId(1)),
                                                ChatId(2)),
                               AgentChatKey(AgentId(2)), ChatId(1))

\* the status a poll reports for a chat, from the chat alone
ExpectedStatus(chat, nowMs) ==
  IF chat.error.set /\ chat.error.value # <<>> THEN "error"
  ELSE IF chat.status = "streaming" THEN "processing"
  ELSE IF chat.status # "idle"
  THEN (IF nowMs - chat.created_at.ms > timeoutMs THEN "timeout"
        ELSE "processing")
  ELSE IF HasAssistant(chat.messages) THEN "completed"
  ELSE "processing"

\* C17: n interleaved checkResponse calls on one chat id, starting from a
\* stored count c (0 when absent): every count a call computes, every
\* check_count a call returns and the count stored once all calls are over
\* lie between c+1 and c+n, and the status a call returns is the one the
\* chat alone determines, whatever count the call has read.
C17_CounterRace ==
  tasks # NoTasks
    => LET chat_id == tasks[1].args.chat_id
           c == StoredCount(tasks[1].storeAtCall, chat_id)
           n == Len(tasks)
       IN /\ \A t \in DOMAIN tasks :
               /\ tasks[t].pc \notin {"get", "set"}
                    => tasks[t].checkCount \in (c + 1)..(c + n)
               /\ tasks[t].outcome = "return"
                    => /\ "check_count" \in DOMAIN tasks[t].value
                            => tasks[t].value.check_count \in (c + 1)..(c + n)
                       /\ tasks[t].value.status
                            = ExpectedStatus(remote[chat_id], now)
          /\ AllDone => StoredCount(store, chat_id) \in (c + 1)..(c + n)

\* a lost update: two polls of a streaming chat both read 1 and both return 2
C17_Witness ==
  /\ AllDone
  /\ StoredCount(tasks[1].storeAtCall, ChatId(1)) = 1
  /\ remote[ChatId(1)].status = "streaming"
  /\ tasks[1].outcome = "return" /\ tasks[2].outcome = "return"
  /\ tasks[1].value.check_count = 2
  /\ tasks[2].value.check_count = 2
  /\ store[CheckCountKey(ChatId(1))] = <<"2">>

\* the positions, in the requests of the call just made, of the requests
\* `op` that the remote service answered with a status in `statuses`
Answered(op, statuses) ==
  {i \in 1..Len(calls') : calls'[i].op = op /\ calls'[i].status \in statuses}

\* C18: whenever delegate reaches createChat (no stored record, forceNewChat,
\* or 404 on the append) and createChat succeeds with id N, delegate returns a
\* handle with chat id N and continued = false, and on return
\* agent_chat:<agentId> = N and check_count:<N> = 0.
C18_CreatePath ==
  [][(lastCall'.op = "delegate_to_agent"
        /\ Answered("POST /api/chats", {200}) # {})
       => LET N == calls'[Len(calls')].target
              existing == StoreGet(store, AgentChatKey(lastCall'.args.agent_id))
          IN /\ \/ ~existing.set
                \/ lastCall'.args.force_new_chat
                \/ Answered("POST /api/messages", {404}) # {}
             /\ N \notin DOMAIN remote /\ N \in DOMAIN remote'
             /\ lastCall'.outcome = "return"
             /\ lastCall'.value.chat_id = N
             /\ lastCall'.value.continued_conversation = FALSE
             /\ StoreGet(store', AgentChatKey(lastCall'.args.agent_id)) = Val(N)
             /\ StoreGet(store', CheckCountKey(N)) = Val(<<"0">>)]_vars

\* a forced delegation that left the agent's live first chat for a second one
C18_Witness ==
  /\ DelegateReturned
  /\ lastCall.args.force_new_chat
  /\ ChatId(1) \in DOMAIN remote
  /\ Len(calls) = 1 /\ calls[1].op = "POST /api/chats" /\ calls[1].status = 200
  /\ lastCall.value.chat_id = ChatId(2)
  /\ ~lastCall.value.continued_conversation
  /\ store[AgentChatKey(AgentId(1))] = ChatId(2)
  /\ store[CheckCountKey(ChatId(2))] = <<"0">>

\* C19: when agent_chat:<agentId> holds E, forceNewChat is false and the
\* append to E succeeds, delegate makes no createChat call and returns a
\* handle with chat id E and continued = true; agent_chat:<agentId> still
\* equals E, check_count:<E> is "0" and no other key of the store changes.
C19_ContinuePath ==
  [][LET existing == StoreGet(store, AgentChatKey(lastCall'.args.agent_id))
         E == existing.value
     IN (/\ lastCall'.op = "delegate_to_agent"
         /\ existing.set
         /\ ~lastCall'.args.force_new_chat
         /\ Answered("POST /api/messages", {200}) # {})
          => /\ Len(calls') = 1 /\ calls'[1].target = E
             /\ lastCall'.outcome = "return"
             /\ lastCall'.value.chat_id = E
             /\ lastCall'.value.continued_conversation = TRUE
             /\ StoreGet(store', AgentChatKey(lastCall'.args.agent_id)) = Val(E)
             /\ StoreGet(store', CheckCountKey(E)) = Val(<<"0">>)
             /\ DOMAIN store' = DOMAIN store
             /\ \A k \in DOMAIN store :
                  k # CheckCountKey(E) => store'[k] = store[k]]_vars

\* a second query appended to the agent's chat, whose counter is back at 0
C19_Witness ==
  /\ DelegateReturned
  /\ ~lastCall.args.force_new_chat
  /\ lastCall.value.continued_conversation
  /\ lastCall.value.chat_id = ChatId(1)
  /\ Len(calls) = 1 /\ calls[1].op = "POST /api/messages"
  /\ Len(remote[ChatId(1)].messages) = 2
  /\ store[AgentChatKey(AgentId(1))] = ChatId(1)
  /\ store[CheckCountKey(ChatId(1))] = <<"0">>

\* the statuses of a failed request other than 404
OtherFailures == {status \in HttpStatuses : ~Ok(status) /\ status # 404}

\* C20: when the append to the stored chat fails with a status other than
\* 404, delegate throws the delegation error, makes no createChat call and
\* leaves the store (agent_chat:<agentId> and check_count:<oldChatId>
\* included) and the remote chats as they were.
C20_AppendFailure ==
  [][(lastCall'.op = "delegate_to_agent"
        /\ Answered("POST /api/messages", OtherFailures) # {})
       => /\ lastCall'.outcome = "throw"
          /\ lastCall'.value.message = "Failed to send message to agent"
          /\ lastCall'.value.status = calls'[1].status
          /\ Len(calls') = 1
          /\ store' = store
          /\ remote' = remote]_vars

\* a failed append that left the record and a counter of 2 in place
C20_Witness ==
  /\ DelegateCalled
  /\ lastCall.outcome = "throw"
  /\ Len(calls) = 1 /\ calls[1].op = "POST /api/messages"
  /\ calls[1].status = 500
  /\ ChatId(1) \in DOMAIN remote
  /\ store[AgentChatKey(AgentId(1))] = ChatId(1)
  /\ store[CheckCountKey(ChatId(1))] = <<"2">>

\* C21: with forceNewChat = true and agent_chat:<agentId> = E, delegate
\* issues no appendMessage at all: its only request is createChat, and when
\* that succeeds with a new id it overwrites agent_chat:<agentId> with the
\* new id, sets check_count:<newId> to 0 and returns a handle with that id
\* and continued = false; chat E gets no new message.
C21_ForceNewChat ==
  [][LET existing == StoreGet(store, AgentChatKey(lastCall'.args.agent_id))
         E == existing.value
     IN (/\ lastCall'.op = "delegate_to_agent"
         /\ lastCall'.args.force_new_chat
         /\ existing.set)
          => /\ Len(calls') = 1
             /\ calls'[1].op = "POST /api/chats"
             /\ E \in DOMAIN remote => remote'[E] = remote[E]
             /\ IF Ok(calls'[1].status)
                THEN LET N == calls'[1].target
                     IN /\ N # E
                        /\ lastCall'.outcome = "return"
                        /\ lastCall'.value.chat_id = N
                        /\ lastCall'.value.continued_conversation = FALSE
                        /\ StoreGet(store',
                                    AgentChatKey(lastCall'.args.agent_id))
                             = Val(N)
                        /\ StoreGet(store', CheckCountKey(N)) = Val(<<"0">>)
                ELSE /\ lastCall'.outcome = "throw"
                     /\ store' = store]_vars

\* a forced delegation while the agent's first chat, polled twice, is live
C21_Witness ==
  /\ DelegateReturned
  /\ lastCall.args.force_new_chat
  /\ ChatId(1) \in DOMAIN remote
  /\ Len(remote[ChatId(1)].messages) = 1
  /\ store[CheckCountKey(ChatId(1))] = <<"2">>
  /\ lastCall.value.chat_id = ChatId(2)
  /\ store[AgentChatKey(AgentId(1))] = ChatId(2)
  /\ calls[1].op = "POST /api/chats"

\* C22: a poll of a chat that is idle with null error and whose history holds
\* no assistant message returns status "processing".
C22_IdleWithoutAnswer ==
  (/\ CheckReturned
   /\ PolledChat.status = "idle"
   /\ ~PolledChat.error.set
   /\ ~HasAssistant(PolledChat.messages))
    => lastCall.value.status = "processing"

\* an idle chat polled while its history holds the user's query only
C22_Witness ==
  /\ CheckReturned
  /\ PolledChat.status = "idle"
  /\ ~PolledChat.error.set
  /\ PolledChat.messages = <<UserMessage(<<"q">>)>>
  /\ Len(calls) = 2
  /\ lastCall.value.status = "processing"

\* C23: a poll of a chat for which the remote service reports an error text
\* returns status "error" with a message that ends with that text, after
\* exactly one request, the status fetch: it fetches no history and repeats
\* nothing.
C23_RemoteError ==
  (CheckReturned /\ PolledChat.error.set /\ PolledChat.error.value # <<>>)
    => /\ lastCall.value.status = "error"
       /\ lastCall.value.message
            = <<"The agent encountered an error: ", PolledChat.error.value>>
       /\ Len(calls) = 1
       /\ calls[1].op = "GET /api/chats"
       /\ calls[1].target = lastCall.args.chat_id

\* an idle chat with an answer and an error text, reported as an error
C23_Witness ==
  /\ CheckReturned
  /\ PolledChat.status = "idle"
  /\ HasAssistant(PolledChat.messages)
  /\ PolledChat.error = Val(<<"e">>)
  /\ lastCall.value.status = "error"
  /\ Len(calls) = 1

\* the requests of the last call that the remote service refused
Refused == {i \in 1..Len(calls) : calls[i].status \notin 200..299}

\* C24: when the status fetch or the history fetch of a poll is answered with
\* a non-2xx status, check_agent_response throws an error that carries that
\* status code and the response body and returns no result; the refused
\* request is the last one of the call, and no request is issued twice.
C24_TransportFailure ==
  (lastCall.op = "check_agent_response" /\ Refused # {})
    => /\ Refused = {Len(calls)}
       /\ Len(calls) <= 2
       /\ \A i, j \in 1..Len(calls) : i # j => calls[i].op # calls[j].op
       /\ lastCall.outcome = "throw"
       /\ lastCall.value.status = calls[Len(calls)].status
       /\ lastCall.value.errorText = ErrorText(calls[Len(calls)].status)
       /\ lastCall.value.message
            = (IF calls[Len(calls)].op = "GET /api/chats"
               THEN "Failed to get chat" ELSE "Failed to get chat messages")

\* the history fetch of an idle chat refused with 500 after the status fetch
C24_Witness ==
  /\ lastCall.op = "check_agent_response"
  /\ lastCall.outcome = "throw"
  /\ Len(calls) = 2
  /\ calls[1].op = "GET /api/chats" /\ calls[1].status = 200
  /\ calls[2].op = "GET /api/messages" /\ calls[2].status = 500
  /\ lastCall.value.status = 500
  /\ remote[ChatId(1)].status = "idle"

\* the fields reserved to a completed result
CompletedFields == {"response", "message_count", "assistant_message_count"}

\* C25: a result of check_agent_response has a response text, a message
\* count or an assistant message count only when its status is "completed";
\* a completed result has all three, its counts are those of the fetched
\* history, and 1 <= assistant count <= total count.
C25_CompletedFields ==
  CheckReturned
    => IF lastCall.value.status = "completed"
       THEN /\ CompletedFields \subseteq DOMAIN lastCall.value
            /\ lastCall.value.message_count = Len(PolledChat.messages)
            /\ lastCall.value.assistant_message_count
                 = Cardinality(AssistantAt(PolledChat.messages))
            /\ lastCall.value.assistant_message_count >= 1
            /\ lastCall.value.assistant_message_count
                 <= lastCall.value.message_count
       ELSE CompletedFields \cap DOMAIN lastCall.value = {}

\* a completed poll of a history of one user and one assistant message
C25_Witness ==
  /\ CheckReturned
  /\ lastCall.value.status = "completed"
  /\ PolledChat.messages = <<UserMessage(<<"q">>), AssistantMessage(<<"a">>)>>
  /\ lastCall.value.message_count = 2
  /\ lastCall.value.assistant_message_count = 1

\* the requests `op` among those of the last call
Issued(op) == {i \in 1..Len(calls) : calls[i].op = op}

\* C26: a call of delegate issues at most one appendMessage and at most one
\* createChat request, the latter non-streaming, and no status or history
\* fetch; when it returns, the handle is "delegated" whatever status the
\* remote chat is in (waiting, streaming or idle).
C26_NeverBlocks ==
  DelegateCalled
    => /\ Cardinality(Issued("POST /api/messages")) <= 1
       /\ Cardinality(Issued("POST /api/chats")) <= 1
       /\ \A i \in 1..Len(calls) :
            calls[i].op \in {"POST /api/messages", "POST /api/chats"}
       /\ \A i \in Issued("POST /api/chats") : calls[i].body.stream = FALSE
       /\ lastCall.outcome = "return"
            => /\ lastCall.value.status = "delegated"
               /\ remote[lastCall.value.chat_id].status \in Statuses

\* a handle returned after a 404 and a creation, the new chat still waiting
C26_Witness ==
  /\ DelegateReturned
  /\ Len(calls) = 2
  /\ calls[1].op = "POST /api/messages" /\ calls[1].status = 404
  /\ calls[2].op = "POST /api/chats" /\ calls[2].status = 200
  /\ remote[lastCall.value.chat_id].status = "pending"
  /\ lastCall.value.status = "delegated"

\* C27: when onModelIntents runs for a Slack conversation after the request
\* was aborted, its only request is one setStatus with the empty string: no
\* working status is posted; the call returns normally whether or not that
\* request fails, and the thread's status is cleared when it succeeds and
\* left as it was when it fails.
C27_AbortClearsStatus ==
  [][(/\ lastCall'.op = "onModelIntents"
      /\ lastCall'.args.metadata.set
      /\ lastCall'.args.aborted)
       => /\ Len(calls') = 1
          /\ calls'[1].op = "assistant.threads.setStatus"
          /\ calls'[1].target = lastCall'.args.metadata.value
          /\ calls'[1].body = <<>>
          /\ lastCall'.outcome = "return"
          /\ slack' = (IF calls'[1].status = 200 THEN <<>> ELSE slack)]_vars

\* the clearing of a working status failed and the call returned all the same
C27_Witness ==
  /\ lastCall.op = "onModelIntents"
  /\ lastCall.args.aborted
  /\ lastCall.args.metadata.set
  /\ lastCall.outcome = "return"
  /\ Len(calls) = 1 /\ calls[1].status = 500 /\ calls[1].body = <<>>
  /\ slack = <<"i", "s", " ", "s", "e", ",", " ", "r", ".", ".", ".">>

\* C28: the timeout decision for a chat that is neither streaming nor idle
\* depends on the instant the chat was created only, whether created_at
\* arrives as Unix seconds, as Unix milliseconds or as an ISO string:
\* "timeout" exactly when that instant is more than two minutes ago.
C28_UnitsAgree ==
  (/\ CheckReturned
   /\ PolledChat.status \notin {"streaming", "idle"}
   /\ ~PolledChat.error.set)
    => (lastCall.value.status = "timeout"
          <=> now - PolledChat.created_at.ms > timeoutMs)

\* the organization a discovery call is about: the one the caller names,
\* else the configured default (an empty string counts as none)
NamedOrg ==
  IF Truthy(lastCall.args.organization_id)
  THEN lastCall.args.organization_id
  ELSE env.BLINK_ORG_ID

\* list_agents ran with a token
Discovered ==
  /\ lastCall.op = "list_agents"
  /\ Truthy(env.BLINK_API_TOKEN)

\* C29: discovery with an organization id, given or configured, sends exactly
\* one request, the agent listing of that organization (the given id before
\* the configured one), and returns its agents or, when that listing fails,
\* throws; discovery without one whose list-organizations call fails sends
\* nothing else and throws. Neither failure yields an empty result.
C29_SingleOrgOrError ==
  Discovered
    => /\ Truthy(NamedOrg)
          => /\ Len(calls) = 1
             /\ calls[1].op = "GET /api/agents"
             /\ calls[1].target = NamedOrg.value
             /\ IF Ok(calls[1].status)
                THEN /\ lastCall.outcome = "return"
                     /\ lastCall.value = RemoteAgents(NamedOrg.value)
                ELSE /\ lastCall.outcome = "throw"
                     /\ lastCall.value.message = "Failed to list agents"
                     /\ lastCall.value.status = calls[1].status
       /\ ~Truthy(NamedOrg)
          => /\ Len(calls) >= 1
             /\ calls[1].op = "GET /api/organizations"
             /\ ~Ok(calls[1].status)
                  => /\ Len(calls) = 1
                     /\ lastCall.outcome = "throw"
                     /\ lastCall.value.message = "Failed to list organizations"

\* the caller names o2 while o1 is configured: only o2 is listed, and the
\* listing fails
C29_Witness ==
  /\ Discovered
  /\ lastCall.args.organization_id = Val(OrgId(2))
  /\ env.BLINK_ORG_ID = Val(OrgId(1))
  /\ calls = <<Request("GET /api/agents", OrgId(2), <<>>, 500)>>
  /\ lastCall.outcome = "throw"

\* the last check_agent_response ended without an answer: a request failed, or
\* the result is "error" or "timeout"
CheckFailed(call) ==
  /\ call.op = "check_agent_response"
  /\ \/ /\ call.outcome = "throw"
        /\ call.value.message
             \in {"Failed to get chat", "Failed to get chat messages"}
     \/ /\ call.outcome = "return"
        /\ call.value.status \in {"error", "timeout"}

\* C30: a check_agent_response call whose chat or messages request fails, or
\* that returns "error" or "timeout", leaves check_count:<chat_id> one higher
\* than the call found it: the counter is persisted before the first request.
C30_CountedBeforeFetch ==
  [][CheckFailed(lastCall')
       => StoredCount(store', lastCall'.args.chat_id)
            = StoredCount(store, lastCall'.args.chat_id) + 1]_vars

\* the second check of a chat fails on its status request; the counter is 2
C30_Witness ==
  /\ CheckFailed(lastCall)
  /\ lastCall.outcome = "throw"
  /\ calls = <<Request("GET /api/chats", ChatId(1), <<>>, 500)>>
  /\ store[CheckCountKey(ChatId(1))] = <<"2">>

\* chat c1 is idle with null error and its history holds no assistant message
StuckIdle ==
  /\ ChatId(1) \in DOMAIN remote
  /\ remote[ChatId(1)].status = "idle"
  /\ ~remote[ChatId(1)].error.set
  /\ ~HasAssistant(remote[ChatId(1)].messages)

\* the results at which a caller stops polling
TerminalStatuses == {"completed", "timeout", "error"}

\* C31: as long as the chat stays idle with null error and without an
\* assistant message, every poll that returns returns "processing", however
\* much time has passed since the chat was created: no poll of such a chat
\* ever returns a terminal status, so polling until one never ends.
C31_IdleNeverTimesOut ==
  ([]StuckIdle)
    => [](CheckReturned
            => /\ lastCall.value.status = "processing"
               /\ lastCall.value.status \notin TerminalStatuses)

\* the second poll of a chat that has been idle without an answer for more
\* than the two minutes of the timeout
C31_Witness ==
  /\ StuckIdle
  /\ CheckReturned
  /\ now - PolledChat.created_at.ms > timeoutMs
  /\ store[CheckCountKey(ChatId(1))] = <<"2">>
  /\ lastCall.value.status = "processing"

\* an assistant message of the history has a text part with text
HasAnswerText(messages) ==
  \E i \in 1..Len(messages) :
    /\ messages[i].role = "assistant"
    /\ messages[i].parts.set
    /\ \E j \in 1..Len(messages[i].parts.value) :
         /\ messages[i].parts.value[j].type = "text"
         /\ Truthy(messages[i].parts.value[j].text)

\* chat c1 is idle with null error and an assistant message with text
AnsweredIdle ==
  /\ remote[ChatId(1)].status = "idle"
  /\ ~remote[ChatId(1)].error.set
  /\ HasAnswerText(remote[ChatId(1)].messages)

\* the last poll returned "completed"
CompletedAny == CheckReturned /\ lastCall.value.status = "completed"

\* the last poll returned "completed" with response v
Completed(v) == CompletedAny /\ lastCall.value.response = v

\* the text of the assistant messages of a history: the non-empty texts of
\* their text parts, separated by a blank line and trimmed
HistoryText(messages) ==
  LET text == Trim(JoinBlankLine(AssistantTexts(messages, FALSE)))
  IN IF text = <<>> THEN NoTextResponse ELSE text

\* a poll changes nothing but the counter of the chat it polls
PollFrame ==
  lastCall'.op = "check_agent_response"
    => /\ remote' = remote
       /\ env' = env
       /\ DOMAIN store' = DOMAIN store \cup {CheckCountKey(ChatId(1))}
       /\ \A k \in DOMAIN store :
            k # CheckCountKey(ChatId(1)) => store'[k] = store[k]

\* C32: when the chat ends up idle with null error and an assistant message
\* with text, and stays so, a caller that keeps polling gets "completed";
\* every poll of such a chat that returns, hence every later one, returns
\* "completed" with the text of the chat's history, the same text from one
\* poll to the next; and a poll changes no state but the counter.
C32_CompletesAndStays ==
  /\ (<>[]AnsweredIdle) => <>CompletedAny
  /\ [](CheckReturned /\ AnsweredIdle
          => Completed(HistoryText(remote[ChatId(1)].messages)))
  /\ [][(CompletedAny /\ AnsweredIdle /\ AnsweredIdle'
          /\ lastCall'.op = "check_agent_response"
          /\ lastCall'.outcome = "return")
          => /\ lastCall'.value.status = "completed"
             /\ lastCall'.value.response = lastCall.value.response]_vars
  /\ [][PollFrame]_vars

\* the chat answered "a" and went idle; the second poll since returns the
\* same text after the timeout has passed
C32_Witness ==
  /\ AnsweredIdle
  /\ Completed(<<"a">>)
  /\ store[CheckCountKey(ChatId(1))] = <<"2">>
  /\ now > timeoutMs

\* all calls are delegations to one agent that had no record when they were
\* issued, and every call read the store before any call wrote the record:
\* none of them found a chat, and every creation succeeded
RacedToCreate ==
  /\ AllDone
  /\ \A t \in DOMAIN tasks :
       /\ tasks[t].op = "delegate_to_agent"
       /\ tasks[t].args.agent_id = AgentId(1)
       /\ AgentChatKey(AgentId(1)) \notin DOMAIN tasks[t].storeAtCall
       /\ ~tasks[t].existingChatId.set
       /\ tasks[t].outcome = "return"

\* the step is task t's `await context.store.set(storeKey, newChatId)`
WritesRecord(t) ==
  /\ tasks[t].op = "delegate_to_agent"
  /\ tasks[t].pc = "set_chat"
  /\ tasks'[t].pc = "set_count"

\* C33: delegations to one agent without a stored record, each of which read
\* the store before any of them wrote it, all create a remote chat and return
\* handles that are new (continued_conversation false) with chat ids that
\* differ; afterwards agent_chat:<agent> holds one of these ids and
\* check_count of each of them is "0". The record always holds the id of the
\* call that wrote it last: a call's write puts its own id there, and nothing
\* but such a write changes the record.
C33_SameAgentRace ==
  /\ [](RacedToCreate
          => /\ \A t \in DOMAIN tasks :
                  /\ tasks[t].value.continued_conversation = FALSE
                  /\ tasks[t].value.chat_id = tasks[t].newChatId
                  /\ tasks[t].newChatId \in DOMAIN remote
                  /\ CheckCountKey(tasks[t].newChatId) \in DOMAIN store
                  /\ store[CheckCountKey(tasks[t].newChatId)] = <<"0">>
             /\ \A t, u \in DOMAIN tasks :
                  t # u => tasks[t].newChatId # tasks[u].newChatId
             /\ AgentChatKey(AgentId(1)) \in DOMAIN store
             /\ store[AgentChatKey(AgentId(1))]
                  \in {tasks[t].newChatId : t \in DOMAIN tasks})
  /\ [][\A t \in DOMAIN tasks :
          WritesRecord(t)
            => /\ AgentChatKey(AgentId(1)) \in DOMAIN store'
               /\ store'[AgentChatKey(AgentId(1))] = tasks[t].newChatId]_vars
  /\ [][StoreGet(store', AgentChatKey(AgentId(1)))
          # StoreGet(store, AgentChatKey(AgentId(1)))
          => \E t \in DOMAIN tasks :
               \/ WritesRecord(t)
               \/ tasks[t].pc = "delete"]_vars

\* both calls created a chat; the call that created c1 wrote the record
\* last, so the record holds c1 although c2 is the newer chat
C33_Witness ==
  /\ RacedToCreate
  /\ tasks[1].newChatId = ChatId(2)
  /\ tasks[2].newChatId = ChatId(1)
  /\ store[AgentChatKey(AgentId(1))] = ChatId(1)
  /\ store[CheckCountKey(ChatId(1))] = <<"0">>
  /\ store[CheckCountKey(ChatId(2))] = <<"0">>

\* the call is a delegation whose chat creation failed
CreateFailed(call) ==
  /\ call.op = "delegate_to_agent"
  /\ call.outcome = "throw"
  /\ call.value.message = "Failed to communicate with agent"

\* the requests are an append answered 404 followed by a chat creation
AfterNotFound(requests) ==
  /\ Len(requests) = 2
  /\ requests[1].op = "POST /api/messages"
  /\ requests[1].status = 404
  /\ requests[2].op = "POST /api/chats"

\* the check_count entries of store s
CountEntries(s) ==
  {<<k, s[k]>> : k \in {x \in DOMAIN s : x[1] = "check_count:"}}

\* C34: a delegation whose chat creation fails writes nothing to the store.
\* When the creation followed an append answered 404, the record
\* agent_chat:<agent> the call found is gone afterwards and nothing else has
\* changed; otherwise (force_new_chat with a record, or no record) the store
\* is as it was, so a record still holds the old chat id. No check_count
\* entry is created, reset or removed. And a delegation that finds no record
\* sends a single request, the chat creation, and no append.
C34_CreateFailureWritesNothing ==
  /\ [][CreateFailed(lastCall')
          => LET storeKey == AgentChatKey(lastCall'.args.agent_id)
             IN /\ AfterNotFound(calls')
                     => /\ storeKey \in DOMAIN store
                        /\ DOMAIN store' = DOMAIN store \ {storeKey}
                        /\ \A k \in DOMAIN store' : store'[k] = store[k]
                /\ ~AfterNotFound(calls')
                     => /\ store' = store
                        /\ Len(calls') = 1
                        /\ calls'[1].op = "POST /api/chats"
                        /\ storeKey \in DOMAIN store
                             => lastCall'.args.force_new_chat
                /\ CountEntries(store') = CountEntries(store)]_vars
  /\ [][(/\ lastCall'.op = "delegate_to_agent"
         /\ Truthy(env.BLINK_API_TOKEN)
         /\ AgentChatKey(lastCall'.args.agent_id) \notin DOMAIN store)
          => /\ Len(calls') = 1
             /\ calls'[1].op = "POST /api/chats"]_vars

\* the chat of agent a1 was polled twice and vanished; the next delegation
\* got 404 on its append and a failure on the creation: the record is gone,
\* the counter of the vanished chat is still "2"
C34_Witness ==
  /\ CreateFailed(lastCall)
  /\ lastCall.args.agent_id = AgentId(1)
  /\ AfterNotFound(calls)
  /\ AgentChatKey(AgentId(1)) \notin DOMAIN store
  /\ CheckCountKey(ChatId(1)) \in DOMAIN store
  /\ store[CheckCountKey(ChatId(1))] = <<"2">>

\* the agent_chat entries of store s
RecordEntries(s) ==
  {<<k, s[k]>> : k \in {x \in DOMAIN s : x[1] = "agent_chat:"}}

\* the keys the step removes from the store
DeletedKeys == DOMAIN store \ DOMAIN store'

\* C35: a check_agent_response call changes the store at most under
\* check_count:<chat_id> of the chat it polls and leaves every agent_chat
\* entry as it was; and no step removes a key other than
\* agent_chat:<agent_id> of a delegation whose append was answered 404, so
\* no check_count entry is ever removed, whether its chat was replaced or is
\* gone.
C35_Frames ==
  /\ [][lastCall'.op = "check_agent_response"
          => /\ RecordEntries(store') = RecordEntries(store)
             /\ DOMAIN store' \subseteq
                  DOMAIN store \cup {<<"check_count:", lastCall'.args.chat_id>>}
             /\ \A k \in DOMAIN store :
                  k # <<"check_count:", lastCall'.args.chat_id>>
                    => k \in DOMAIN store' /\ store'[k] = store[k]]_vars
  /\ [][DeletedKeys # {}
          => /\ lastCall'.op = "delegate_to_agent"
             /\ DeletedKeys = {<<"agent_chat:", lastCall'.args.agent_id>>}
             /\ calls'[1].op = "POST /api/messages"
             /\ calls'[1].status = 404]_vars
  /\ [][\A k \in DOMAIN store : k[1] = "check_count:" => k \in DOMAIN store']_vars

\* agent a1's chat c1 vanished and was replaced by c2; a poll of c1 fails,
\* counts itself under check_count:c1 and leaves the record of c2 alone
C35_Witness ==
  /\ lastCall.op = "check_agent_response"
  /\ lastCall.args.chat_id = ChatId(1)
  /\ lastCall.outcome = "throw"
  /\ ChatId(1) \notin DOMAIN remote
  /\ AgentChatKey(AgentId(1)) \in DOMAIN store
  /\ store[AgentChatKey(AgentId(1))] = ChatId(2)
  /\ CheckCountKey(ChatId(1)) \in DOMAIN store
  /\ store[CheckCountKey(ChatId(1))] = <<"1">>

====
